---- MODULE Spec2Model ----
(***************************************************************************)
(* State-machine model of the financial consultation server (src/index.js):*)
(* the webhook lifecycle, the speaker tracker, the audio rebuffer, the     *)
(* transcription socket handlers and the tool-calling extraction loop.     *)
(*                                                                         *)
(* Conventions.                                                            *)
(*  - A JS Buffer is a sequence of byte ranges [lo |-> a, hi |-> b] of the *)
(*    meeting's received audio stream (bytes a .. b-1), kept normalised    *)
(*    (adjacent ranges merged), so that two buffers are equal exactly when *)
(*    they hold the same bytes of the stream in the same order.            *)
(*  - JS objects that closures keep alive (collectors, sockets) live in    *)
(*    heaps (sequences); a reference is an index, 0 is null/undefined.     *)
(*  - A JS Map / object with optional keys is a function whose DOMAIN is   *)
(*    the set of keys present.                                             *)
(*  - An awaited promise is a task record with a pc; the continuation after *)
(*    the await is a separate action.                                      *)
(*  - Timestamps (firstSeen, lastSeen, startTime), the per-user audioChunks*)
(*    counter and console logging are not read by any guard and are left   *)
(*    out.                                                                 *)
(*  - starts, apiResponses, packetLog, assignLog and dropped are history   *)
(*    variables: they record what the handlers did and are read by no      *)
(*    handler.                                                             *)
(***************************************************************************)
EXTENDS Integers, Sequences, FiniteSets, TLC

(***************************************************************************)
(* Bounds of the model                                                     *)
(***************************************************************************)
\* The whole server, one meeting (Spec).
MaxStarts == 1         \* start signals handled
MaxTurns == 1          \* finalized Turn events handled
MaxResponses == 1      \* extraction-model calls answered
MaxAudio == 1          \* audio packets accepted between two start signals
MaxAssigns == 1        \* manual role assignments between two start signals
\* Two meetings at the same time (SpecMeetings).
MeetingsStarts == 2
MeetingsTurns == 2
MeetingsResponses == 1
MeetingsPackets == 1
\* The extraction loop (SpecExtraction, SpecFaint).
ExtractionStarts == 2
ExtractionTurns == 1
ExtractionResponses == 2
MaxFaintKeys == 2      \* keys present in one update_faint input
\* The speaker tracker (SpecSpeakers), the current-speaker pointer
\* (SpecPointer) and the manual assignment (SpecOverride).
SpeakerPackets == 5
SpeakerAssigns == 1
PointerStarts == 2
PointerPackets == 5
OverridePackets == 2
OverrideAssigns == 2
\* The audio rebuffer (SpecRebuffer).
RebufferPushes == 3
\* A long conversation (SpecHistory): below HistoryWarm entries the turns come
\* one at a time and are answered by one tool round and a final response.
HistoryWarm == 26
HistoryTurns == 9
HistoryResponses == 16
\* SpecOutage
OutagePackets == 3
\* SpecStop
StopPackets == 2
\* The number of tool-call rounds a turn may use in C30
RoundsBound == 1
\* SpecPrune
PruneHead == 6
PruneWarm == 26
PruneTurns == 9
PruneResponses == 19
\* SpecLabels
LabelPackets == 2
LabelAssigns == 1
LabelTurns == 2
\* SpecSdk
SdkStarts == 2
SdkPushes == 2
\* SpecLeak
LeakStarts == 2
\* SpecAttribution
AttributionPackets == 3
AttributionTurns == 1
\* SpecRestart
RestartStarts == 2
RestartPackets == 1
RestartAssigns == 1
RestartTurns == 1
RestartResponses == 1
\* SpecProcess
ProcessStarts == 2
ProcessPackets == 1

(***************************************************************************)
(* Program constants                                                       *)
(***************************************************************************)
SAMPLE_RATE == 16000
CHANNELS == 1
BYTES_PER_SAMPLE == 2
TARGET_CHUNK_DURATION_MS == 250
TARGET_CHUNK_SIZE ==
    (SAMPLE_RATE * CHANNELS * BYTES_PER_SAMPLE * TARGET_CHUNK_DURATION_MS) \div 1000
MinChunkDurationMs == 50
minChunkSize == (SAMPLE_RATE * CHANNELS * BYTES_PER_SAMPLE * MinChunkDurationMs) \div 1000
MaxLiveTranscripts == 50
PruneThreshold == 30
PruneKeep == 20
FallbackKeep == 5

NotIdentified == "Not identified"
FaintFields == {"funds", "authority", "interest", "need", "timing"}
Roles == {"Consultant", "Client", "Unassigned"}

\* null for currentSpeakerId (every real speaker id is >= 0).
NoSpeaker == 0 - 1

(***************************************************************************)
(* Generic helpers                                                         *)
(***************************************************************************)
Last(s) == s[Len(s)]

\* Array.prototype.slice(from) for from >= 0 (0-based index).
SliceFrom(s, from) == IF from >= Len(s) THEN <<>> ELSE SubSeq(s, from + 1, Len(s))

\* Array.prototype.slice(-n).
SliceLast(s, n) == IF Len(s) <= n THEN s ELSE SubSeq(s, Len(s) - n + 1, Len(s))

\* Map.prototype.set / object property assignment.
MapSet(f, k, v) == [x \in DOMAIN f \cup {k} |-> IF x = k THEN v ELSE f[x]]

\* Map.prototype.delete / delete obj.key.
MapDelete(f, k) == [x \in DOMAIN f \ {k} |-> f[x]]

\* Strings s for which s.trim() === ''.
WhitespaceStrings == {"", " ", "  "}
IsBlank(s) == s \in WhitespaceStrings

(***************************************************************************)
(* Session Record: financialData and the tools that mutate it              *)
(***************************************************************************)
EmptyFaint == [f \in FaintFields |-> NotIdentified]

EmptyFinancialData ==
    [summary |-> <<>>,
     faint |-> EmptyFaint,
     clientInfo |-> <<>>,
     advisorReminders |-> <<>>,
     concerns |-> <<>>,
     strategicQuestions |-> <<>>]

\* The test guarding the assignment in the update_faint case:
\* input[key] && input[key].trim() !== '' && input[key] !== 'Not identified'.
FaintValueAccepted(v) == v # "" /\ ~IsBlank(v) /\ v # NotIdentified

\* Mutant: the trim test is dropped, so a whitespace-only value is stored.
UpdateFaintNoTrim(faint, input) ==
    LET set == {k \in DOMAIN input : input[k] # "" /\ input[k] # NotIdentified}
    IN [k \in DOMAIN faint \cup set |-> IF k \in set THEN input[k] ELSE faint[k]]

\* Mutant: the record is rebuilt from the input, omitted fields fall back to
\* the sentinel.
UpdateFaintReplace(faint, input) ==
    [k \in DOMAIN faint \cup DOMAIN input |->
        IF k \in DOMAIN input /\ FaintValueAccepted(input[k]) THEN input[k]
        ELSE NotIdentified]

\* case 'update_faint': Object.keys(input).forEach(key => { if (...) faint[key] = input[key] }).
UpdateFaint(faint, input) ==
    LET set == {k \in DOMAIN input : FaintValueAccepted(input[k])}
    IN [k \in DOMAIN faint \cup set |-> IF k \in set THEN input[k] ELSE faint[k]]

\* Mutant: update_summary replaces the list by the new point.
ExecuteToolOverwrite(fd, toolUse) ==
    CASE toolUse.name = "update_summary" ->
            [fd EXCEPT !.summary = <<toolUse.input.new_point>>]
      [] toolUse.name = "update_faint" ->
            [fd EXCEPT !.faint = UpdateFaint(fd.faint, toolUse.input)]
      [] toolUse.name = "update_client_info" ->
            [fd EXCEPT !.clientInfo = Append(@, toolUse.input.new_info)]
      [] toolUse.name = "update_advisor_reminders" ->
            [fd EXCEPT !.advisorReminders = Append(@, toolUse.input.new_reminder)]
      [] toolUse.name = "update_concerns" ->
            [fd EXCEPT !.concerns = Append(@, toolUse.input.new_concern)]
      [] toolUse.name = "update_strategic_questions" ->
            [fd EXCEPT !.strategicQuestions = Append(@, toolUse.input.new_question)]
      [] OTHER -> fd

\* executeToolAndGetResult: the effect of one tool_use block on financialData.
ExecuteTool(fd, toolUse) ==
    CASE toolUse.name = "update_summary" ->
            [fd EXCEPT !.summary = Append(@, toolUse.input.new_point)]
      [] toolUse.name = "update_faint" ->
            [fd EXCEPT !.faint = UpdateFaint(fd.faint, toolUse.input)]
      [] toolUse.name = "update_client_info" ->
            [fd EXCEPT !.clientInfo = Append(@, toolUse.input.new_info)]
      [] toolUse.name = "update_advisor_reminders" ->
            [fd EXCEPT !.advisorReminders = Append(@, toolUse.input.new_reminder)]
      [] toolUse.name = "update_concerns" ->
            [fd EXCEPT !.concerns = Append(@, toolUse.input.new_concern)]
      [] toolUse.name = "update_strategic_questions" ->
            [fd EXCEPT !.strategicQuestions = Append(@, toolUse.input.new_question)]
      [] OTHER -> fd

\* executeToolAndGetResult: the tool_result block it returns.
ToolResult(toolUse) ==
    [type |-> "tool_result",
     id |-> toolUse.id,
     name |-> "",
     input |-> <<>>,
     text |-> CASE toolUse.name = "update_faint" -> "Updated"
                [] toolUse.name \in {"update_summary", "update_client_info",
                                     "update_advisor_reminders", "update_concerns",
                                     "update_strategic_questions"} -> "Added"
                [] OTHER -> "Done"]

\* The for loop of processTranscript over message.content: every tool_use block
\* is executed in order, other blocks are skipped.
RECURSIVE ExecuteAll(_, _)
ExecuteAll(fd, content) ==
    IF content = <<>> THEN fd
    ELSE ExecuteAll(IF Head(content).type = "tool_use"
                    THEN ExecuteTool(fd, Head(content)) ELSE fd,
                    Tail(content))

RECURSIVE CollectResults(_)
CollectResults(content) ==
    IF content = <<>> THEN <<>>
    ELSE (IF Head(content).type = "tool_use" THEN <<ToolResult(Head(content))>> ELSE <<>>)
         \o CollectResults(Tail(content))

(***************************************************************************)
(* Buffers (byte ranges of the received stream)                            *)
(***************************************************************************)
\* One more range at the end of a normalised buffer.
AppendRange(buf, r) ==
    IF r.lo >= r.hi THEN buf
    ELSE IF buf # <<>> /\ Last(buf).hi = r.lo
         THEN [buf EXCEPT ![Len(buf)].hi = r.hi]
         ELSE Append(buf, r)

RECURSIVE ConcatInto(_, _)
ConcatInto(acc, ranges) ==
    IF ranges = <<>> THEN acc
    ELSE ConcatInto(AppendRange(acc, Head(ranges)), Tail(ranges))

RECURSIVE Flatten(_)
Flatten(list) == IF list = <<>> THEN <<>> ELSE Head(list) \o Flatten(Tail(list))

\* Buffer.concat(list): the bytes of the listed buffers, in order.
BufConcat(list) == ConcatInto(<<>>, Flatten(list))

RECURSIVE BufLen(_)
\* buf.length
BufLen(buf) ==
    IF buf = <<>> THEN 0
    ELSE (Head(buf).hi - Head(buf).lo) + BufLen(Tail(buf))

RECURSIVE TotalBuffered(_)
\* list.reduce((sum, chunk) => sum + chunk.length, 0)
TotalBuffered(list) ==
    IF list = <<>> THEN 0 ELSE BufLen(Head(list)) + TotalBuffered(Tail(list))

RECURSIVE BufTake(_, _)
\* buf.subarray(0, n)
BufTake(buf, n) ==
    IF buf = <<>> \/ n <= 0 THEN <<>>
    ELSE LET r == Head(buf)
             len == r.hi - r.lo
         IN IF len >= n THEN <<[lo |-> r.lo, hi |-> r.lo + n]>>
            ELSE <<r>> \o BufTake(Tail(buf), n - len)

RECURSIVE BufDrop(_, _)
\* buf.subarray(n)
BufDrop(buf, n) ==
    IF buf = <<>> THEN <<>>
    ELSE IF n <= 0 THEN buf
    ELSE LET r == Head(buf)
             len == r.hi - r.lo
         IN IF len > n THEN <<[lo |-> r.lo + n, hi |-> r.hi]>> \o Tail(buf)
            ELSE BufDrop(Tail(buf), n - len)

AudioFrame(buf) == [type |-> "audio", data |-> buf]
TerminateMessage == [type |-> "Terminate", data |-> <<>>]

(***************************************************************************)
(* Meeting ids and their sanitised form                                    *)
(***************************************************************************)
AlphaNum ==
    {"a", "b", "c", "d", "e", "f", "g", "h", "i", "j", "k", "l", "m",
     "n", "o", "p", "q", "r", "s", "t", "u", "v", "w", "x", "y", "z",
     "A", "B", "C", "D", "E", "F", "G", "H", "I", "J", "K", "L", "M",
     "N", "O", "P", "Q", "R", "S", "T", "U", "V", "W", "X", "Y", "Z",
     "0", "1", "2", "3", "4", "5", "6", "7", "8", "9"}

\* meeting_uuid.replace(/[^a-zA-Z0-9]/g, "_"); an id is a sequence of characters.
Sanitize(id) == [i \in DOMAIN id |-> IF id[i] \in AlphaNum THEN id[i] ELSE "_"]

\* conversationId before the first start signal (null).
NoConversation == <<>>

(***************************************************************************)
(* State                                                                   *)
(***************************************************************************)
VARIABLES
    DEBUG_ENABLED,        \* process.env.DEBUG_MODE === 'true', fixed at start-up
    conversationHistory,  \* messages exchanged with the extraction model
    conversationId,       \* sanitised id of the meeting started last
    financialData,        \* the Session Record
    liveTranscripts,      \* global.liveTranscripts
    detectedUsers,        \* speakerTracking.detectedUsers, in insertion order
    speakerMapping,       \* Map speakerId -> role
    detectedSpeakers,     \* Set of speaker ids
    currentSpeakerId,     \* current-speaker pointer, NoSpeaker for null
    activeConnections,    \* Map meeting -> {signaling, media} socket refs
    audioCollectors,      \* Map meeting -> collector ref
    collectors,           \* heap of collector objects
    sockets,              \* heap of WebSocket objects
    timers,               \* pending setTimeout callbacks of cleanupMeeting
    tasks,                \* processTranscript invocations (await points)
    recordings,           \* processRecordedAudio invocations (await points)
    files,                \* files written under ./consultation_logs
    apiResponses,         \* responses the extraction model has served
    starts,               \* history: start signals handled
    packetLog,            \* history: speaker ids of the packets accepted since the last start
    dropped,              \* history: per collector, the audio the rebuffer discarded
    assignLog,            \* history: the manual role assignments made since the last start
    raised,               \* history: an exception escaped from handleAudioDataWithSpeaker
    process,              \* the process: the exit codes of its pending exit timers,
                          \* whether it has exited and with which code
    sdk                   \* the SDK (sales) variant, a process of its own: its module
                          \* variables and the heap of its streaming sockets

vars ==
    <<DEBUG_ENABLED, conversationHistory, conversationId, financialData,
      liveTranscripts, detectedUsers, speakerMapping, detectedSpeakers,
      currentSpeakerId, activeConnections, audioCollectors, collectors, sockets,
      timers, tasks, recordings, files, apiResponses, starts, packetLog, dropped,
      assignLog, raised, process, sdk>>

extractionVars == <<conversationHistory, financialData, tasks, apiResponses, files>>
speakerVars ==
    <<detectedUsers, speakerMapping, detectedSpeakers, currentSpeakerId, packetLog, assignLog>>
connectionVars ==
    <<activeConnections, audioCollectors, collectors, sockets, timers, recordings, dropped,
      raised, process, sdk>>

EmptyMap == <<>>

\* The variables of index.js; the SDK variant touches none of them.
indexVars ==
    <<DEBUG_ENABLED, conversationHistory, conversationId, financialData,
      liveTranscripts, detectedUsers, speakerMapping, detectedSpeakers,
      currentSpeakerId, activeConnections, audioCollectors, collectors, sockets,
      timers, tasks, recordings, files, apiResponses, starts, packetLog, dropped,
      assignLog, raised, process>>

\* The SDK variant after its module is loaded: let streamingWs = null,
\* stopRequested = false, audioBuffer = [], audioChunks = [], no rtms client.
\* sockets is the heap of the WebSocket objects it creates, timers holds, for
\* each pending setTimeout of cleanupStreamingTranscription, the socket that was
\* streamingWs when it was scheduled; starts, stops, pushes and forwarding are
\* history: the start signals, stop signals and audio callbacks handled, and
\* whether the last start signal has been followed by no stop signal and no
\* streaming error.
SdkInit ==
    [streamingWs |-> 0, stopRequested |-> FALSE, audioBuffer |-> <<>>,
     audioChunks |-> <<>>, totalBytes |-> 0, rtmsClient |-> FALSE, sockets |-> <<>>,
     timers |-> <<>>, converting |-> 0, exited |-> FALSE, starts |-> 0,
     stops |-> 0, pushes |-> 0, forwarding |-> FALSE]

Init ==
    /\ DEBUG_ENABLED \in BOOLEAN
    /\ conversationHistory = <<>>
    /\ conversationId = NoConversation
    /\ financialData = EmptyFinancialData
    /\ liveTranscripts = <<>>
    /\ detectedUsers = <<>>
    /\ speakerMapping = EmptyMap
    /\ detectedSpeakers = {}
    /\ currentSpeakerId = NoSpeaker
    /\ activeConnections = EmptyMap
    /\ audioCollectors = EmptyMap
    /\ collectors = <<>>
    /\ sockets = <<>>
    /\ timers = <<>>
    /\ tasks = <<>>
    /\ recordings = <<>>
    /\ files = EmptyMap
    /\ apiResponses = 0
    /\ starts = 0
    /\ packetLog = <<>>
    /\ dropped = <<>>
    /\ assignLog = <<>>
    /\ raised = FALSE
    /\ process = [exitTimers |-> {}, exited |-> FALSE, code |-> 0]
    /\ sdk = SdkInit

(***************************************************************************)
(* WebSocket objects                                                       *)
(***************************************************************************)
\* new WebSocket(url): readyState CONNECTING. The handlers of a streaming socket
\* close over the collector it was created for, those of a media socket over the
\* signaling socket (closure is that reference, 0 for a signaling socket).
NewSocket(kind, meeting, closure) ==
    [kind |-> kind, meeting |-> meeting, closure |-> closure,
     readyState |-> "CONNECTING", sent |-> <<>>, closeCalls |-> 0]

\* ws.close(): starts the closing handshake (or aborts the opening one); a
\* socket already CLOSING or CLOSED is left as it is.
WsClose(sock) ==
    [sock EXCEPT !.readyState = IF @ \in {"CONNECTING", "OPEN"} THEN "CLOSING" ELSE @,
                 !.closeCalls = IF @ < 2 THEN @ + 1 ELSE @]

\* ws.send(data) on an OPEN socket.
WsSend(sock, msg) == [sock EXCEPT !.sent = Append(@, msg)]

(***************************************************************************)
(* Lifecycle: POST /webhook                                                *)
(***************************************************************************)
\* Mutant: the collector of a restarted meeting keeps the stop request.
NewCollectorStopped(streamingWs) ==
    [audioChunks |-> <<>>, audioBuffer |-> <<>>, totalBytes |-> 0, chunkCount |-> 0,
     streamingWs |-> streamingWs, stopRequested |-> TRUE]

\* initializeAudioCollection: the fresh collector object; streamingWs is set by
\* initializeAssemblyAIStreaming in the same handler run.
NewCollector(streamingWs) ==
    [audioChunks |-> <<>>, audioBuffer |-> <<>>, totalBytes |-> 0, chunkCount |-> 0,
     streamingWs |-> streamingWs, stopRequested |-> FALSE]

\* event === 'meeting.rtms_started'
WebhookStarted(m) ==
    /\ starts' = starts + 1
    /\ conversationId' = Sanitize(m)
    /\ conversationHistory' = <<>>
    /\ financialData' = EmptyFinancialData
    /\ speakerMapping' = EmptyMap
    /\ detectedSpeakers' = {}
    /\ detectedUsers' = <<>>
    /\ currentSpeakerId' = NoSpeaker
    /\ liveTranscripts' = <<>>
    /\ packetLog' = <<>>
    /\ assignLog' = <<>>
    /\ LET c == Len(collectors) + 1
           streamingWs == Len(sockets) + 1
           signaling == Len(sockets) + 2
           conns == IF m \in DOMAIN activeConnections
                    THEN activeConnections[m] ELSE EmptyMap
       IN /\ collectors' = Append(collectors, NewCollector(streamingWs))
          /\ dropped' = Append(dropped, <<>>)
          /\ audioCollectors' = MapSet(audioCollectors, m, c)
          /\ sockets' = sockets \o <<NewSocket("streaming", m, c),
                                     NewSocket("signaling", m, 0)>>
          /\ activeConnections' =
                MapSet(activeConnections, m, MapSet(conns, "signaling", signaling))
    /\ UNCHANGED <<DEBUG_ENABLED, timers, tasks, recordings, files, apiResponses, raised, process, sdk>>

\* Mutant: the remainder is sent whatever its length.
FlushedNoMinimum(collector, socks) ==
    LET combinedBuffer == BufConcat(collector.audioBuffer)
        ws == collector.streamingWs
    IN IF collector.audioBuffer # <<>> /\ ws # 0 /\ socks[ws].readyState = "OPEN"
       THEN [socks EXCEPT ![ws] = WsSend(@, AudioFrame(combinedBuffer))]
       ELSE socks

\* Mutant: the remainder is sent whatever the state of the socket.
FlushedAnyState(collector, socks) ==
    LET combinedBuffer == BufConcat(collector.audioBuffer)
        ws == collector.streamingWs
    IN IF /\ collector.audioBuffer # <<>>
          /\ BufLen(combinedBuffer) >= minChunkSize
          /\ ws # 0
       THEN [socks EXCEPT ![ws] = WsSend(@, AudioFrame(combinedBuffer))]
       ELSE socks

\* flushAudioBuffer: the sockets after the flush of this collector.
Flushed(collector, socks) ==
    LET combinedBuffer == BufConcat(collector.audioBuffer)
        ws == collector.streamingWs
    IN IF /\ collector.audioBuffer # <<>>
          /\ BufLen(combinedBuffer) >= minChunkSize
          /\ ws # 0
          /\ socks[ws].readyState = "OPEN"
       THEN [socks EXCEPT ![ws] = WsSend(@, AudioFrame(combinedBuffer))]
       ELSE socks

\* Mutant: Terminate is sent whatever the state of the socket.
TerminatedAnyState(collector, socks) ==
    LET ws == collector.streamingWs
    IN IF ws # 0
       THEN [socks EXCEPT ![ws] = WsSend(@, TerminateMessage)]
       ELSE socks

\* cleanupMeeting, the streamingWs branch: Terminate goes out on an OPEN socket.
Terminated(collector, socks) ==
    LET ws == collector.streamingWs
    IN IF ws # 0 /\ socks[ws].readyState = "OPEN"
       THEN [socks EXCEPT ![ws] = WsSend(@, TerminateMessage)]
       ELSE socks

\* Mutant: the audio-source connections are left as they are.
ConnectionsKept(conns, socks) == socks

\* cleanupMeeting: for (const conn of Object.values(connections)) conn.close().
ConnectionsClosed(conns, socks) ==
    LET ids == {conns[k] : k \in DOMAIN conns}
    IN [i \in DOMAIN socks |-> IF i \in ids THEN WsClose(socks[i]) ELSE socks[i]]

\* Mutant: the collector stays registered after the cleanup.
CleanedUpKeepsCollector(st, m) ==
    IF m \notin DOMAIN st.audioCollectors
    THEN st
    ELSE LET c == st.audioCollectors[m]
             collector == st.collectors[c]
             flushed == Flushed(collector, st.sockets)
             terminated == Terminated(collector, flushed)
             connected == m \in DOMAIN st.activeConnections
         IN [collectors |-> [st.collectors EXCEPT ![c].stopRequested = TRUE,
                                                  ![c].audioBuffer = <<>>],
             dropped |-> IF collector.audioBuffer # <<>> /\ flushed = st.sockets
                         THEN [st.dropped EXCEPT ![c] =
                                   Append(@, BufConcat(collector.audioBuffer))]
                         ELSE st.dropped,
             timers |-> IF collector.streamingWs # 0
                        THEN Append(st.timers, c) ELSE st.timers,
             sockets |-> IF connected
                         THEN ConnectionsClosed(st.activeConnections[m], terminated)
                         ELSE terminated,
             activeConnections |-> IF connected
                                   THEN MapDelete(st.activeConnections, m)
                                   ELSE st.activeConnections,
             recordings |-> IF collector.audioChunks # <<>>
                            THEN Append(st.recordings, [meetingId |-> m, pc |-> "await"])
                            ELSE st.recordings,
             audioCollectors |-> st.audioCollectors]

\* cleanupMeeting(meetingUuid), up to its return to the caller (it has no
\* await): the variables it touches, after the call.
CleanedUp(st, m) ==
    IF m \notin DOMAIN st.audioCollectors
    THEN st
    ELSE LET c == st.audioCollectors[m]
             collector == st.collectors[c]
             flushed == Flushed(collector, st.sockets)
             terminated == Terminated(collector, flushed)
             connected == m \in DOMAIN st.activeConnections
         IN [collectors |-> [st.collectors EXCEPT ![c].stopRequested = TRUE,
                                                  ![c].audioBuffer = <<>>],
             dropped |-> IF collector.audioBuffer # <<>> /\ flushed = st.sockets
                         THEN [st.dropped EXCEPT ![c] =
                                   Append(@, BufConcat(collector.audioBuffer))]
                         ELSE st.dropped,
             timers |-> IF collector.streamingWs # 0
                        THEN Append(st.timers, c) ELSE st.timers,
             sockets |-> IF connected
                         THEN ConnectionsClosed(st.activeConnections[m], terminated)
                         ELSE terminated,
             activeConnections |-> IF connected
                                   THEN MapDelete(st.activeConnections, m)
                                   ELSE st.activeConnections,
             recordings |-> IF collector.audioChunks # <<>>
                            THEN Append(st.recordings, [meetingId |-> m, pc |-> "await"])
                            ELSE st.recordings,
             audioCollectors |-> MapDelete(st.audioCollectors, m)]

\* The variables cleanupMeeting reads and writes.
CleanupVars ==
    [collectors |-> collectors, dropped |-> dropped, timers |-> timers,
     sockets |-> sockets, activeConnections |-> activeConnections,
     recordings |-> recordings, audioCollectors |-> audioCollectors]

\* The step that leaves those variables as st.
CleanupApplied(st) ==
    /\ collectors' = st.collectors
    /\ dropped' = st.dropped
    /\ timers' = st.timers
    /\ sockets' = st.sockets
    /\ activeConnections' = st.activeConnections
    /\ recordings' = st.recordings
    /\ audioCollectors' = st.audioCollectors

\* cleanupMeeting(meetingUuid) as a step.
CleanupMeeting(m) == CleanupApplied(CleanedUp(CleanupVars, m))

\* event === 'meeting.rtms_stopped'
WebhookStopped(m) ==
    /\ CleanupMeeting(m)
    /\ UNCHANGED <<DEBUG_ENABLED, extractionVars, speakerVars, conversationId,
                   liveTranscripts, starts, raised, process, sdk>>

\* The setTimeout callback of cleanupMeeting: if (collector.streamingWs) close().
CloseTimerFires ==
    /\ timers # <<>>
    /\ LET c == Head(timers)
           ws == collectors[c].streamingWs
       IN sockets' = IF ws # 0 THEN [sockets EXCEPT ![ws] = WsClose(@)] ELSE sockets
    /\ timers' = Tail(timers)
    /\ UNCHANGED <<DEBUG_ENABLED, extractionVars, speakerVars, conversationId,
                   liveTranscripts, starts, activeConnections, audioCollectors,
                   collectors, recordings, dropped, raised, process, sdk>>

\* for (const [meetingId] of audioCollectors.entries()) cleanupMeeting(meetingId):
\* the meetings are visited in the order they were registered.
RECURSIVE CleanedUpAll(_)
CleanedUpAll(st) ==
    IF DOMAIN st.audioCollectors = {}
    THEN st
    ELSE LET m == CHOOSE x \in DOMAIN st.audioCollectors :
                    \A y \in DOMAIN st.audioCollectors :
                        st.audioCollectors[x] <= st.audioCollectors[y]
         IN CleanedUpAll(CleanedUp(st, m))

\* process.on("SIGINT") and process.on("SIGTERM"), which have the same body:
\* every registered meeting is cleaned up, then exit(0) is set for a second later.
ShutdownSignal ==
    /\ CleanupApplied(CleanedUpAll(CleanupVars))
    /\ process' = [process EXCEPT !.exitTimers = @ \cup {0}]
    /\ UNCHANGED <<DEBUG_ENABLED, extractionVars, speakerVars, conversationId,
                   liveTranscripts, starts, raised, sdk>>

\* process.on("uncaughtException"): the error is logged and exit(1) is set for
\* half a second later.
UncaughtException ==
    /\ process' = [process EXCEPT !.exitTimers = @ \cup {1}]
    /\ UNCHANGED <<DEBUG_ENABLED, extractionVars, speakerVars, conversationId,
                   liveTranscripts, starts, activeConnections, audioCollectors,
                   collectors, sockets, timers, recordings, dropped, raised, sdk>>

\* A pending setTimeout(() => process.exit(code)) fires.
ProcessExits ==
    /\ \E code \in process.exitTimers :
          process' = [exitTimers |-> {}, exited |-> TRUE, code |-> code]
    /\ UNCHANGED <<DEBUG_ENABLED, extractionVars, speakerVars, conversationId,
                   liveTranscripts, starts, activeConnections, audioCollectors,
                   collectors, sockets, timers, recordings, dropped, raised, sdk>>

(***************************************************************************)
(* Socket events                                                           *)
(***************************************************************************)
HandshakeMessage == [type |-> "handshake", data |-> <<>>]

\* 'open' of a socket: the signaling and media handlers send their handshake,
\* the streaming handler only logs.
SocketOpens(i) ==
    /\ sockets[i].readyState = "CONNECTING"
    /\ sockets' = [sockets EXCEPT ![i] =
            IF @.kind = "streaming"
            THEN [@ EXCEPT !.readyState = "OPEN"]
            ELSE WsSend([@ EXCEPT !.readyState = "OPEN"], HandshakeMessage)]
    /\ UNCHANGED <<DEBUG_ENABLED, extractionVars, speakerVars, conversationId,
                   liveTranscripts, starts, activeConnections, audioCollectors,
                   collectors, timers, recordings, dropped, raised, process, sdk>>

\* Mutant: the error handler only logs.
StreamingErrorLogsOnly(i) ==
    /\ sockets[i].kind = "streaming"
    /\ sockets[i].readyState \in {"CONNECTING", "OPEN"}
    /\ sockets' = [sockets EXCEPT ![i].readyState = "CLOSING"]
    /\ UNCHANGED <<DEBUG_ENABLED, extractionVars, speakerVars, conversationId,
                   liveTranscripts, starts, activeConnections, audioCollectors,
                   collectors, timers, recordings, dropped, raised, process, sdk>>

\* streamingWs.on('error'): collector.stopRequested = true on the collector the
\* handler closes over; the socket library then closes the socket.
StreamingError(i) ==
    /\ sockets[i].kind = "streaming"
    /\ sockets[i].readyState \in {"CONNECTING", "OPEN"}
    /\ collectors' = [collectors EXCEPT ![sockets[i].closure].stopRequested = TRUE]
    /\ sockets' = [sockets EXCEPT ![i].readyState = "CLOSING"]
    /\ UNCHANGED <<DEBUG_ENABLED, extractionVars, speakerVars, conversationId,
                   liveTranscripts, starts, activeConnections, audioCollectors,
                   timers, recordings, dropped, raised, process, sdk>>

\* 'close' of a socket (the closing handshake ended, or the peer closed): the
\* signaling and media handlers delete their key from the meeting's entry.
SocketCloses(i) ==
    /\ sockets[i].readyState \in {"OPEN", "CLOSING"}
    /\ sockets' = [sockets EXCEPT ![i].readyState = "CLOSED"]
    /\ LET m == sockets[i].meeting
           kind == sockets[i].kind
       IN activeConnections' =
            IF kind # "streaming" /\ m \in DOMAIN activeConnections
            THEN [activeConnections EXCEPT ![m] = MapDelete(@, kind)]
            ELSE activeConnections
    /\ UNCHANGED <<DEBUG_ENABLED, extractionVars, speakerVars, conversationId,
                   liveTranscripts, starts, audioCollectors, collectors, timers,
                   recordings, dropped, raised, process, sdk>>

\* ws.on('message') of the signaling socket, msg_type 2 with status_code 0 and a
\* media url (the peer answers the handshake of a connection once):
\* connectToMediaWebSocket.
SignalingHandshakeResponse(i) ==
    /\ sockets[i].kind = "signaling"
    /\ sockets[i].readyState = "OPEN"
    /\ ~\E j \in DOMAIN sockets : sockets[j].kind = "media" /\ sockets[j].closure = i
    /\ LET m == sockets[i].meeting
           mediaWs == Len(sockets) + 1
       IN /\ sockets' = Append(sockets, NewSocket("media", m, i))
          /\ activeConnections' =
                IF m \in DOMAIN activeConnections
                THEN [activeConnections EXCEPT ![m] = MapSet(@, "media", mediaWs)]
                ELSE activeConnections
    /\ UNCHANGED <<DEBUG_ENABLED, extractionVars, speakerVars, conversationId,
                   liveTranscripts, starts, audioCollectors, collectors, timers,
                   recordings, dropped, raised, process, sdk>>

\* A message that is not JSON, or is JSON of no known type, on socket i. The
\* media and transcription handlers parse inside try/catch and match no branch
\* on an unknown type. The signaling handler calls JSON.parse outside any try:
\* the SyntaxError leaves the listener and reaches process.on("uncaughtException").
MalformedMessage(i, isJson) ==
    /\ sockets[i].readyState \in {"OPEN", "CLOSING"}
    /\ IF sockets[i].kind = "signaling" /\ ~isJson
       THEN UncaughtException
       ELSE UNCHANGED vars

(***************************************************************************)
(* Speaker tracking and audio ingestion                                    *)
(***************************************************************************)
DetectedUserIds(users) == {users[k].id : k \in DOMAIN users}

\* speakerTracking.detectedUsers.get(speakerId).role = role, when the id is tracked.
SetTrackedRole(users, speakerId, role) ==
    [k \in DOMAIN users |->
        IF users[k].id = speakerId THEN [users[k] EXCEPT !.role = role] ELSE users[k]]

\* Mutant: the role is chosen by the numeric id, not by the order of appearance.
AutoRoleById(size, speakerId) ==
    IF speakerId = 3 THEN "Consultant" ELSE IF speakerId = 7 THEN "Client" ELSE "Unassigned"

\* The role handleAudioDataWithSpeaker auto-assigns to a newly tracked speaker,
\* by detectedUsers.size after the insertion; "Unassigned" stands for no assignment.
AutoRole(size, speakerId) ==
    IF size = 1 THEN "Consultant" ELSE IF size = 2 THEN "Client" ELSE "Unassigned"

\* Mutant: the pointer is moved only when it was null.
SpeakerAfterPacketSticky(current, speakerId) ==
    IF current = NoSpeaker THEN speakerId ELSE current

\* if (currentSpeakerId !== speakerId) currentSpeakerId = speakerId
SpeakerAfterPacket(current, speakerId) ==
    IF current # speakerId THEN speakerId ELSE current

\* Mutant: the whole buffer is sent and nothing is retained.
SendToAssemblyAIWhole(collector, socks, audioData) ==
    LET ws == collector.streamingWs
        combinedBuffer == BufConcat(Append(collector.audioBuffer, audioData))
    IN IF ws = 0 \/ collector.stopRequested
       THEN [collector |-> collector, sockets |-> socks]
       ELSE IF BufLen(combinedBuffer) >= TARGET_CHUNK_SIZE
            THEN [collector |-> [collector EXCEPT !.audioBuffer = <<>>],
                  sockets |-> IF socks[ws].readyState = "OPEN"
                              THEN [socks EXCEPT ![ws] = WsSend(@, AudioFrame(combinedBuffer))]
                              ELSE socks]
            ELSE [collector |-> [collector EXCEPT
                                    !.audioBuffer = Append(@, audioData)],
                  sockets |-> socks]

RECURSIVE Drained(_, _)
\* Mutant helper: frames are sent as long as a whole frame is buffered.
Drained(sock, buf) ==
    IF BufLen(buf) >= TARGET_CHUNK_SIZE
    THEN Drained(WsSend(sock, AudioFrame(BufTake(buf, TARGET_CHUNK_SIZE))),
                 BufDrop(buf, TARGET_CHUNK_SIZE))
    ELSE [sock |-> sock, buf |-> buf]

\* Mutant: one call sends every whole frame the buffer holds.
SendToAssemblyAIDrain(collector, socks, audioData) ==
    LET ws == collector.streamingWs
        pushed == Append(collector.audioBuffer, audioData)
        combinedBuffer == BufConcat(pushed)
    IN IF ws = 0 \/ collector.stopRequested
       THEN [collector |-> collector, sockets |-> socks]
       ELSE IF TotalBuffered(pushed) >= TARGET_CHUNK_SIZE
            THEN IF socks[ws].readyState = "OPEN"
                 THEN LET d == Drained(socks[ws], combinedBuffer)
                      IN [collector |-> [collector EXCEPT !.audioBuffer =
                                IF BufLen(d.buf) > 0 THEN <<d.buf>> ELSE <<>>],
                          sockets |-> [socks EXCEPT ![ws] = d.sock]]
                 ELSE [collector |-> [collector EXCEPT !.audioBuffer =
                            <<BufDrop(combinedBuffer, TARGET_CHUNK_SIZE)>>],
                       sockets |-> socks]
            ELSE [collector |-> [collector EXCEPT !.audioBuffer = pushed],
                  sockets |-> socks]

\* sendToAssemblyAI: the collector and the sockets after the call.
SendToAssemblyAI(collector, socks, audioData) ==
    LET ws == collector.streamingWs
        pushed == Append(collector.audioBuffer, audioData)
        totalBufferedSize == TotalBuffered(pushed)
        combinedBuffer == BufConcat(pushed)
        chunkToSend == BufTake(combinedBuffer, TARGET_CHUNK_SIZE)
        remainingData == BufDrop(combinedBuffer, TARGET_CHUNK_SIZE)
    IN IF ws = 0 \/ collector.stopRequested
       THEN [collector |-> collector, sockets |-> socks]
       ELSE IF totalBufferedSize >= TARGET_CHUNK_SIZE
            THEN [collector |-> [collector EXCEPT !.audioBuffer =
                        IF BufLen(remainingData) > 0 THEN <<remainingData>> ELSE <<>>],
                  sockets |-> IF socks[ws].readyState = "OPEN"
                              THEN [socks EXCEPT ![ws] = WsSend(@, AudioFrame(chunkToSend))]
                              ELSE socks]
            ELSE [collector |-> [collector EXCEPT !.audioBuffer = pushed],
                  sockets |-> socks]

\* Mutant: the send of a frame is not wrapped in try/catch.
SendOutcomeUncaught(collector, socks, audioData, sendThrows) ==
    LET sent == SendToAssemblyAI(collector, socks, audioData)
        attempted == sent.sockets # socks
    IN [collector |-> sent.collector,
        sockets |-> IF attempted /\ sendThrows THEN socks ELSE sent.sockets,
        raised |-> attempted /\ sendThrows]

\* sendToAssemblyAI with the outcome of streamingWs.send: when the send throws,
\* the catch block logs the error; the frame was cut from the buffer before.
SendOutcome(collector, socks, audioData, sendThrows) ==
    LET sent == SendToAssemblyAI(collector, socks, audioData)
        attempted == sent.sockets # socks
    IN [collector |-> sent.collector,
        sockets |-> IF attempted /\ sendThrows THEN socks ELSE sent.sockets,
        raised |-> FALSE]

\* handleAudioDataWithSpeaker for a packet that passes the guard; sendThrows
\* tells whether streamingWs.send throws if it is called.
AcceptAudioWith(c, speakerId, len, sendThrows) ==
    LET collector == collectors[c]
        isNew == speakerId \notin DetectedUserIds(detectedUsers)
        size == Len(detectedUsers) + 1
        role == AutoRole(size, speakerId)
        audioBuffer == <<[lo |-> collector.totalBytes, hi |-> collector.totalBytes + len]>>
        counted == [collector EXCEPT !.audioChunks = Append(@, audioBuffer),
                                     !.totalBytes = @ + len,
                                     !.chunkCount = @ + 1]
        after == SendOutcome(counted, sockets, audioBuffer, sendThrows)
        buffered == BufConcat(Append(collector.audioBuffer, audioBuffer))
        cut == BufLen(buffered) - TotalBuffered(after.collector.audioBuffer)
    IN /\ IF isNew
          THEN /\ detectedUsers' = Append(detectedUsers, [id |-> speakerId, role |-> role])
               /\ speakerMapping' = IF role # "Unassigned"
                                    THEN MapSet(speakerMapping, speakerId, role)
                                    ELSE speakerMapping
               /\ detectedSpeakers' = detectedSpeakers \cup {speakerId}
          ELSE UNCHANGED <<detectedUsers, speakerMapping, detectedSpeakers>>
       /\ currentSpeakerId' = SpeakerAfterPacket(currentSpeakerId, speakerId)
       /\ packetLog' = Append(packetLog, speakerId)
       /\ UNCHANGED assignLog
       /\ collectors' = [collectors EXCEPT ![c] = after.collector]
       /\ sockets' = after.sockets
       /\ dropped' = IF cut > 0 /\ after.sockets = sockets
                     THEN [dropped EXCEPT ![c] = Append(@, BufTake(buffered, cut))]
                     ELSE dropped
       /\ raised' = (raised \/ after.raised)
       /\ UNCHANGED <<process, sdk>>

\* handleAudioDataWithSpeaker when the send, if any, succeeds.
AcceptAudio(c, speakerId, len) == AcceptAudioWith(c, speakerId, len, FALSE)

\* mediaWs.on('message') with msg_type 14 and content.data: the packet is handed
\* to handleAudioDataWithSpeaker, which returns at once when the meeting has no
\* collector or stop was requested.
MediaAudioPacketWith(i, speakerId, len, sendThrows) ==
    /\ sockets[i].kind = "media"
    /\ sockets[i].readyState \in {"OPEN", "CLOSING"}
    /\ LET m == sockets[i].meeting
       IN IF m \in DOMAIN audioCollectors /\ ~collectors[audioCollectors[m]].stopRequested
          THEN AcceptAudioWith(audioCollectors[m], speakerId, len, sendThrows)
          ELSE UNCHANGED <<speakerVars, collectors, sockets, dropped, raised, process, sdk>>
    /\ UNCHANGED <<DEBUG_ENABLED, extractionVars, conversationId, liveTranscripts,
                   starts, activeConnections, audioCollectors, timers, recordings>>

\* The audio message handler when the send, if any, succeeds.
MediaAudioPacket(i, speakerId, len) == MediaAudioPacketWith(i, speakerId, len, FALSE)

\* GET /api/dashboard: the response body.
Dashboard ==
    [conversation_id |-> conversationId,
     financial_data |-> financialData,
     conversation_history_length |-> Len(conversationHistory),
     active_meetings |-> Cardinality(DOMAIN activeConnections)]

\* Mutant: the same assignment made again takes the role away.
AssignedToggle(mapping, speakerId, role) ==
    IF speakerId \in DOMAIN mapping /\ mapping[speakerId] = role
    THEN MapSet(mapping, speakerId, "Unassigned")
    ELSE MapSet(mapping, speakerId, role)

\* speakerMapping.set(speakerId, role)
Assigned(mapping, speakerId, role) == MapSet(mapping, speakerId, role)

\* The speaker state the assign handler reads and writes.
SpeakerState ==
    [detectedSpeakers |-> detectedSpeakers,
     speakerMapping |-> speakerMapping,
     detectedUsers |-> detectedUsers]

\* Mutant: only a speaker already tracked from audio is registered.
AssignEffectTrackedOnly(state, speakerId, role) ==
    IF role \notin Roles \/ speakerId \notin DetectedUserIds(state.detectedUsers)
    THEN state
    ELSE [detectedSpeakers |-> state.detectedSpeakers \cup {speakerId},
          speakerMapping |-> Assigned(state.speakerMapping, speakerId, role),
          detectedUsers |-> SetTrackedRole(state.detectedUsers, speakerId, role)]

\* POST /api/speakers/assign, its effect on the speaker state: nothing for a
\* role outside the three known ones (400), else the id is added to
\* detectedSpeakers, mapped to the role, and its tracked role set when tracked.
AssignEffect(state, speakerId, role) ==
    IF role \notin Roles
    THEN state
    ELSE [detectedSpeakers |-> state.detectedSpeakers \cup {speakerId},
          speakerMapping |-> Assigned(state.speakerMapping, speakerId, role),
          detectedUsers |-> SetTrackedRole(state.detectedUsers, speakerId, role)]

\* POST /api/speakers/assign, its response: 400 with the error for a role
\* outside the three known ones, else the success body.
AssignResponse(speakerId, role) ==
    IF role \notin Roles
    THEN [status |-> 400, success |-> FALSE, error |-> "Invalid role",
          speakerId |-> NoSpeaker, role |-> ""]
    ELSE [status |-> 200, success |-> TRUE, error |-> "",
          speakerId |-> speakerId, role |-> role]

\* POST /api/speakers/assign
AssignSpeaker(speakerId, role) ==
    /\ LET after == AssignEffect(SpeakerState, speakerId, role)
       IN /\ detectedSpeakers' = after.detectedSpeakers
          /\ speakerMapping' = after.speakerMapping
          /\ detectedUsers' = after.detectedUsers
    /\ assignLog' = IF role \in Roles
                    THEN Append(assignLog, [speakerId |-> speakerId, role |-> role])
                    ELSE assignLog
    /\ UNCHANGED <<DEBUG_ENABLED, extractionVars, conversationId, liveTranscripts,
                   starts, connectionVars, currentSpeakerId, packetLog>>

(***************************************************************************)
(* Transcription events and the extraction loop                            *)
(***************************************************************************)
UserText(text) == [role |-> "user", isArray |-> FALSE, text |-> text, blocks |-> <<>>]
AssistantBlocks(content) ==
    [role |-> "assistant", isArray |-> TRUE, text |-> "", blocks |-> content]
ToolResults(results) == [role |-> "user", isArray |-> TRUE, text |-> "", blocks |-> results]

IsPlainUser(msg) == msg.role = "user" /\ ~msg.isArray

\* speakerMapping.get(currentSpeakerId) || `Speaker ${currentSpeakerId}`
SpeakerLabel(mapping, current) ==
    IF current \in DOMAIN mapping THEN mapping[current]
    ELSE "Speaker " \o (IF current = NoSpeaker THEN "null" ELSE ToString(current))

\* Mutant: the search for the cut starts at the newest entry.
PrunedFromLatest(history) ==
    IF Len(history) > PruneThreshold
    THEN LET safe == {i \in 0..(Len(history) - 1) : IsPlainUser(history[i + 1])}
             safeStartIndex == IF safe = {} THEN 0
                               ELSE CHOOSE i \in safe : \A j \in safe : j <= i
         IN SliceFrom(history, safeStartIndex)
    ELSE history

\* Mutant: the history is cut at index length - 20 whatever entry is there.
PrunedAtCut(history) ==
    IF Len(history) > PruneThreshold
    THEN SliceFrom(history, Len(history) - PruneKeep)
    ELSE history

\* processTranscript, the pruning step: the history is cut at the last plain user
\* entry at or before index length - 20 once it holds more than 30 entries.
Pruned(history) ==
    IF Len(history) > PruneThreshold
    THEN LET safe == {i \in 0..(Len(history) - PruneKeep) : IsPlainUser(history[i + 1])}
             safeStartIndex == IF safe = {} THEN 0
                               ELSE CHOOSE i \in safe : \A j \in safe : j <= i
         IN SliceFrom(history, safeStartIndex)
    ELSE history

\* Mutant: the oldest 5 plain user entries are kept.
FallbackHistoryOldest(history) ==
    LET plain == SelectSeq(history, IsPlainUser)
    IN SubSeq(plain, 1, IF Len(plain) < FallbackKeep THEN Len(plain) ELSE FallbackKeep)

\* processTranscript, the catch block's fallback: the last 5 plain user entries.
FallbackHistory(history) == SliceLast(SelectSeq(history, IsPlainUser), FallbackKeep)

\* processTranscript, the filter before each model call: array content must be
\* non-empty, string content non-blank.
IsValidMessage(msg) == IF msg.isArray THEN msg.blocks # <<>> ELSE ~IsBlank(msg.text)

HasToolUse(msg) == \E k \in DOMAIN msg.blocks : msg.blocks[k].type = "tool_use"

RECURSIVE CleanedInto(_, _)
\* validateAndCleanHistory, its loop: cleaned is what has been kept so far. A
\* tool-result entry is kept only behind a kept assistant entry with a tool_use
\* block; assistant entries and non-blank text entries are kept.
CleanedInto(cleaned, history) ==
    IF history = <<>> THEN cleaned
    ELSE LET msg == Head(history)
             keep ==
                IF msg.role = "user" /\ msg.isArray
                THEN /\ cleaned # <<>>
                     /\ Last(cleaned).role = "assistant"
                     /\ Last(cleaned).isArray
                     /\ HasToolUse(Last(cleaned))
                ELSE IF msg.role = "assistant" /\ msg.isArray
                THEN TRUE
                ELSE ~msg.isArray /\ ~IsBlank(msg.text)
         IN CleanedInto(IF keep THEN Append(cleaned, msg) ELSE cleaned, Tail(history))

validateAndCleanHistory(history) == CleanedInto(<<>>, history)

\* The messages of a model call: the history filtered and cleaned.
RequestMessages(history) == validateAndCleanHistory(SelectSeq(history, IsValidMessage))

\* Mutant: a Turn with text is taken whether it is formatted or not.
IsFinalTurnAnyFormat(data) ==
    data.type = "Turn" /\ ~IsBlank(data.transcript)

\* msgType === "Turn" with formatted && transcript.trim()
IsFinalTurn(data) ==
    data.type = "Turn" /\ data.turn_is_formatted /\ ~IsBlank(data.transcript)

\* handleAssemblyAIMessage for one message of a streaming socket. A finalized,
\* non-blank Turn is labeled, stored and handed to processTranscript, which runs
\* up to its first await (the user entry is pushed, the history pruned, the
\* request sent) before the handler returns: the call is not awaited. The task
\* keeps the messages of its pending request and, as history, the Session
\* Record it started from and the one it ended with.
StreamingMessage(i, data) ==
    /\ sockets[i].kind = "streaming"
    /\ sockets[i].readyState \in {"OPEN", "CLOSING"}
    /\ IF data.type = "Begin"
       THEN /\ liveTranscripts' = <<>>
            /\ UNCHANGED <<conversationHistory, tasks>>
       ELSE IF IsFinalTurn(data)
       THEN LET speakerRole == SpeakerLabel(speakerMapping, currentSpeakerId)
                labeledTranscript == speakerRole \o ": " \o data.transcript
                entry == [text |-> labeledTranscript, speaker |-> speakerRole,
                          speakerId |-> currentSpeakerId, type |-> "final"]
            IN /\ liveTranscripts' = SliceLast(Append(liveTranscripts, entry),
                                               MaxLiveTranscripts)
               /\ conversationHistory' =
                     Pruned(Append(conversationHistory, UserText(labeledTranscript)))
               /\ tasks' = Append(tasks, [meeting |-> sockets[i].meeting,
                                          transcript |-> labeledTranscript,
                                          messages |-> RequestMessages(conversationHistory'),
                                          before |-> financialData,
                                         after |-> financialData,
                                          pc |-> "await", rounds |-> 0])
       ELSE UNCHANGED <<liveTranscripts, conversationHistory, tasks>>
    /\ UNCHANGED <<DEBUG_ENABLED, financialData, apiResponses, files, speakerVars,
                   conversationId, starts, connectionVars>>

\* One call of executeToolAndGetResult (it holds no await: the call is one step).
ExecuteToolCall(toolUse) ==
    /\ financialData' = ExecuteTool(financialData, toolUse)
    /\ UNCHANGED <<DEBUG_ENABLED, conversationHistory, tasks, apiResponses, files,
                   speakerVars, conversationId, liveTranscripts, starts, connectionVars>>

\* The blocks of a response, with the ids the API gives its tool_use blocks.
WithIds(content, n) ==
    [k \in DOMAIN content |->
        [content[k] EXCEPT !.id = IF content[k].type = "tool_use"
                                  THEN "toolu_" \o ToString(n) \o "_" \o ToString(k)
                                  ELSE ""]]

LogFile(id) == [kind |-> "log", id |-> id]
ReportFile(id) == [kind |-> "final_report", id |-> id]

\* processTranscript resumed by a response with stop_reason 'tool_use': one pass
\* of the while loop, up to the next await.
ToolRound(t, content) ==
    /\ tasks[t].pc = "await"
    /\ apiResponses' = apiResponses + 1
    /\ LET blocks == WithIds(content, apiResponses + 1)
           toolResults == CollectResults(blocks)
           withAssistant == IF blocks # <<>>
                            THEN Append(conversationHistory, AssistantBlocks(blocks))
                            ELSE conversationHistory
       IN /\ financialData' = ExecuteAll(financialData, blocks)
          /\ conversationHistory' = IF toolResults # <<>>
                                    THEN Append(withAssistant, ToolResults(toolResults))
                                    ELSE withAssistant
    /\ tasks' = [tasks EXCEPT ![t].rounds = @ + 1,
                              ![t].messages = RequestMessages(conversationHistory')]
    /\ UNCHANGED <<DEBUG_ENABLED, files, speakerVars, conversationId, liveTranscripts,
                   starts, connectionVars>>

\* processTranscript resumed by a response with another stop_reason: the final
\* response is pushed when it has content, the log is saved in debug mode.
FinalResponse(t, content) ==
    /\ tasks[t].pc = "await"
    /\ apiResponses' = apiResponses + 1
    /\ conversationHistory' = IF content # <<>>
                              THEN Append(conversationHistory, AssistantBlocks(content))
                              ELSE conversationHistory
    /\ files' = IF DEBUG_ENABLED
                THEN MapSet(files, LogFile(conversationId),
                            [conversationHistory |-> conversationHistory',
                             financialData |-> financialData])
                ELSE files
    /\ tasks' = [tasks EXCEPT ![t].pc = "done", ![t].after = financialData]
    /\ UNCHANGED <<DEBUG_ENABLED, financialData, speakerVars, conversationId,
                   liveTranscripts, starts, connectionVars>>

\* processTranscript resumed by a rejected model call: the catch block. pairing
\* tells whether the error message names tool_use_id or tool_result.
ModelCallFails(t, pairing) ==
    /\ tasks[t].pc = "await"
    /\ apiResponses' = apiResponses + 1
    /\ conversationHistory' = IF pairing THEN FallbackHistory(conversationHistory)
                              ELSE conversationHistory
    /\ tasks' = [tasks EXCEPT ![t].pc = "done", ![t].after = financialData]
    /\ UNCHANGED <<DEBUG_ENABLED, financialData, files, speakerVars, conversationId,
                   liveTranscripts, starts, connectionVars>>

\* processRecordedAudio resumed after its awaits (ffmpeg, backup transcription):
\* in debug mode, when both succeeded, the final report is built from the
\* globals as they are now and written under the raw meeting id.
RecordedAudioDone(r, succeeded) ==
    /\ recordings[r].pc = "await"
    /\ recordings' = [recordings EXCEPT ![r].pc = "done"]
    /\ files' = IF succeeded /\ DEBUG_ENABLED
                THEN MapSet(files, ReportFile(recordings[r].meetingId),
                            [meetingId |-> recordings[r].meetingId,
                             financialData |-> financialData,
                             speakerMapping |-> speakerMapping,
                             fullTranscript |-> "transcript.text"])
                ELSE files
    /\ UNCHANGED <<DEBUG_ENABLED, conversationHistory, financialData, tasks,
                   apiResponses, speakerVars, conversationId, liveTranscripts, starts,
                   activeConnections, audioCollectors, collectors, sockets, timers,
                   dropped, raised, process, sdk>>

(***************************************************************************)
(* The SDK (sales) variant                                                 *)
(***************************************************************************)
\* The frame of the SDK variant: TARGET_CHUNK_DURATION_MS = 100 there.
SdkTARGET_CHUNK_DURATION_MS == 100
SdkTARGET_CHUNK_SIZE ==
    (SAMPLE_RATE * CHANNELS * BYTES_PER_SAMPLE * SdkTARGET_CHUNK_DURATION_MS) \div 1000

\* initializeStreamingTranscription: the current socket, if any, is closed, the
\* buffer is emptied and a new socket becomes streamingWs.
SdkStreamingInitialized(st) ==
    LET closed == IF st.streamingWs # 0
                  THEN [st.sockets EXCEPT ![st.streamingWs] = WsClose(@)]
                  ELSE st.sockets
    IN [st EXCEPT !.sockets = Append(closed, NewSocket("streaming", <<>>, 0)),
                  !.audioBuffer = <<>>,
                  !.streamingWs = Len(st.sockets) + 1]

\* sendBufferedAudio(data)
SdkBuffered(st, data) ==
    LET ws == st.streamingWs
        pushed == Append(st.audioBuffer, data)
        totalBufferedSize == TotalBuffered(pushed)
        combinedBuffer == BufConcat(pushed)
        chunkToSend == BufTake(combinedBuffer, SdkTARGET_CHUNK_SIZE)
        remainingData == BufDrop(combinedBuffer, SdkTARGET_CHUNK_SIZE)
    IN IF totalBufferedSize >= SdkTARGET_CHUNK_SIZE
       THEN [st EXCEPT !.audioBuffer =
                           IF BufLen(remainingData) > 0 THEN <<remainingData>> ELSE <<>>,
                       !.sockets =
                           IF ws # 0 /\ st.sockets[ws].readyState = "OPEN" /\ ~st.stopRequested
                           THEN [st.sockets EXCEPT ![ws] = WsSend(@, AudioFrame(chunkToSend))]
                           ELSE st.sockets]
       ELSE [st EXCEPT !.audioBuffer = pushed]

\* flushAudioBuffer()
SdkFlushed(st) ==
    LET ws == st.streamingWs
        combinedBuffer == BufConcat(st.audioBuffer)
    IN IF st.audioBuffer = <<>> THEN st
       ELSE [st EXCEPT !.audioBuffer = <<>>,
                       !.sockets =
                           IF /\ BufLen(combinedBuffer) >= minChunkSize
                              /\ ws # 0 /\ st.sockets[ws].readyState = "OPEN"
                           THEN [st.sockets EXCEPT ![ws] = WsSend(@, AudioFrame(combinedBuffer))]
                           ELSE st.sockets]

\* The setTimeout callback of cleanupStreamingTranscription:
\* if (streamingWs) { streamingWs.close(); streamingWs = null; }
SdkTimerFired(st) ==
    LET ws == st.streamingWs
    IN [st EXCEPT !.timers = Tail(@),
                  !.sockets = IF ws # 0 THEN [@ EXCEPT ![ws] = WsClose(@)] ELSE @,
                  !.streamingWs = 0]

\* cleanupStreamingTranscription()
SdkCleanedUp(st) ==
    LET stopped == [st EXCEPT !.stopRequested = TRUE]
        flushed == SdkFlushed(stopped)
        ws == flushed.streamingWs
    IN IF ws # 0 /\ flushed.sockets[ws].readyState \in {"OPEN", "CONNECTING"}
       THEN [flushed EXCEPT
                !.sockets = IF @[ws].readyState = "OPEN"
                            THEN [@ EXCEPT ![ws] = WsSend(@, TerminateMessage)] ELSE @,
                !.timers = Append(@, ws),
                !.audioBuffer = <<>>]
       ELSE [flushed EXCEPT !.audioBuffer = <<>>]

SdkRunning == ~sdk.exited

\* event === "meeting.rtms_started": the session is reset, the streaming socket
\* is created, a new rtms client registers onAudioData and joins.
SdkWebhookStarted ==
    /\ SdkRunning
    /\ sdk' = [SdkStreamingInitialized(sdk) EXCEPT !.rtmsClient = TRUE,
                                                   !.starts = @ + 1,
                                                   !.forwarding = TRUE]
    /\ UNCHANGED indexVars

\* 'open' of a streaming socket (the handler only logs).
SdkSocketOpens(i) ==
    /\ SdkRunning
    /\ sdk.sockets[i].readyState = "CONNECTING"
    /\ sdk' = [sdk EXCEPT !.sockets[i].readyState = "OPEN"]
    /\ UNCHANGED indexVars

\* 'close' of a streaming socket: the closing handshake ended (the handler logs).
SdkSocketCloses(i) ==
    /\ SdkRunning
    /\ sdk.sockets[i].readyState = "CLOSING"
    /\ sdk' = [sdk EXCEPT !.sockets[i].readyState = "CLOSED"]
    /\ UNCHANGED indexVars

\* streamingWs.on("error"): stopRequested = true; the socket library then closes
\* the socket.
SdkStreamingError(i) ==
    /\ SdkRunning
    /\ sdk.sockets[i].readyState \in {"CONNECTING", "OPEN"}
    /\ sdk' = [sdk EXCEPT !.stopRequested = TRUE,
                          !.sockets[i].readyState = "CLOSING",
                          !.forwarding = FALSE]
    /\ UNCHANGED indexVars

\* rtmsClient.onAudioData: audioChunks.push(data); sendBufferedAudio(data).
SdkAudioData(len) ==
    /\ SdkRunning
    /\ sdk.rtmsClient
    /\ LET data == <<[lo |-> sdk.totalBytes, hi |-> sdk.totalBytes + len]>>
       IN sdk' = SdkBuffered([sdk EXCEPT !.audioChunks = Append(@, data),
                                         !.totalBytes = @ + len,
                                         !.pushes = @ + 1], data)
    /\ UNCHANGED indexVars

\* event === "meeting.rtms_stopped": cleanupStreamingTranscription, then
\* process.exit(1) if no audio was received, else the recording is converted.
SdkWebhookStopped ==
    /\ SdkRunning
    /\ sdk' = [SdkCleanedUp(sdk) EXCEPT !.forwarding = FALSE,
                                        !.stops = @ + 1,
                                        !.exited = (sdk.audioChunks = <<>>),
                                        !.converting = IF sdk.audioChunks = <<>>
                                                       THEN @ ELSE @ + 1]
    /\ UNCHANGED indexVars

\* The conversion and the backup transcription of a stopped meeting end (then's
\* finally, or catch): audioChunks = []; rtmsClient.leave(); rtmsClient = null.
SdkRecordingDone ==
    /\ SdkRunning
    /\ sdk.converting > 0
    /\ sdk' = [sdk EXCEPT !.converting = @ - 1, !.audioChunks = <<>>,
                          !.rtmsClient = FALSE]
    /\ UNCHANGED indexVars

\* A close timer of cleanupStreamingTranscription fires.
SdkCloseTimerFires ==
    /\ SdkRunning
    /\ sdk.timers # <<>>
    /\ sdk' = SdkTimerFired(sdk)
    /\ UNCHANGED indexVars

(***************************************************************************)
(* Inputs                                                                  *)
(***************************************************************************)
MeetingA == <<"m", "1">>
MeetingB == <<"m", "/", "2">>
Meetings == {MeetingA, MeetingB}

SpeakerIds == {3, 7, 9}

\* Packet lengths in bytes: the sizes of the documented scenario, the 100 ms
\* packet of the media handshake (send_rate 100), and packets above the frame
\* size and above twice the frame size.
ChunkSizes == {700, 1000, 1500, 3200, 8000, 17000}

InputKeys == FaintFields \cup {"budget"}
FaintValues == {"", "  ", NotIdentified, "$2M", "5 years"}

\* Every update_faint input with at most MaxFaintKeys keys.
FaintInputs ==
    UNION {[K -> FaintValues] : K \in {S \in SUBSET InputKeys : Cardinality(S) <= MaxFaintKeys}}

ToolUse(name, input) ==
    [type |-> "tool_use", id |-> "", name |-> name, input |-> input, text |-> ""]
TextBlock(text) ==
    [type |-> "text", id |-> "", name |-> "", input |-> <<>>, text |-> text]

\* The update_faint inputs the extraction model emits in the runs.
EmittedFaintInputs ==
    {[funds |-> v] : v \in {"  ", NotIdentified, "$2M"}} \cup {[timing |-> "5 years"]}

SummaryUse == ToolUse("update_summary", [new_point |-> "point"])
ClientInfoUse == ToolUse("update_client_info", [new_info |-> "info"])
ReminderUse == ToolUse("update_advisor_reminders", [new_reminder |-> "reminder"])
ConcernUse ==
    ToolUse("update_concerns",
            [new_concern |-> [concern |-> "fees", addressing_strategy |-> "explain"]])
QuestionUse ==
    ToolUse("update_strategic_questions",
            [new_question |-> [question |-> "horizon?", purpose |-> "timing"]])
UnknownUse == ToolUse("unknown_tool", <<>>)

ListToolUses == {SummaryUse, ClientInfoUse, ReminderUse, ConcernUse, QuestionUse}

\* Every tool_use block considered (ids are given by the API when it responds).
AllToolUses ==
    {ToolUse("update_faint", input) : input \in FaintInputs}
    \cup ListToolUses \cup {UnknownUse}

\* Responses with stop_reason 'tool_use': one tool_use block, or several, alone
\* or after a text block.
ToolResponses ==
    {<<ToolUse("update_faint", input)>> : input \in EmittedFaintInputs}
    \cup {<<SummaryUse>>, <<TextBlock("noted"), ClientInfoUse, ReminderUse, UnknownUse>>,
          <<ConcernUse, QuestionUse>>}

FinalResponses == {<<>>, <<TextBlock("ok")>>}

TurnMessage(formatted, transcript) ==
    [type |-> "Turn", turn_is_formatted |-> formatted, transcript |-> transcript]
StreamingMessages ==
    {[type |-> "Begin", turn_is_formatted |-> FALSE, transcript |-> ""],
     [type |-> "Termination", turn_is_formatted |-> FALSE, transcript |-> ""]}
    \cup {TurnMessage(f, t) : f \in BOOLEAN, t \in {"we have $2M", "  ", ""}}

(***************************************************************************)
(* Specifications                                                          *)
(***************************************************************************)
\* Events of the run so far, for the bounds of the specifications.
Turns == Len(tasks)
Packets == Len(packetLog)

\* The extraction loop of one meeting and its restarts.
NextExtraction ==
    \/ starts < ExtractionStarts /\ WebhookStarted(MeetingA)
    \/ \E i \in DOMAIN sockets : sockets[i].kind = "streaming" /\ SocketOpens(i)
    \/ \E i \in DOMAIN sockets :
          Turns < ExtractionTurns /\ StreamingMessage(i, TurnMessage(TRUE, "we have $2M"))
    \/ \E t \in DOMAIN tasks, content \in ToolResponses :
          apiResponses < ExtractionResponses /\ ToolRound(t, content)
    \/ \E t \in DOMAIN tasks, content \in FinalResponses :
          apiResponses < ExtractionResponses /\ FinalResponse(t, content)
    \/ \E t \in DOMAIN tasks, pairing \in BOOLEAN :
          apiResponses < ExtractionResponses /\ ModelCallFails(t, pairing)

\* Debug mode is on: the session log is saved after every turn.
InitDebug == Init /\ DEBUG_ENABLED

SpecExtraction == InitDebug /\ [][NextExtraction]_vars

\* The same turns with DEBUG_MODE as the environment sets it, on or off.
SpecPersist == Init /\ [][NextExtraction]_vars

\* The update_faint calls of one session, one call of executeToolAndGetResult
\* per step.
NextFaint ==
    \E input \in FaintInputs : ExecuteToolCall(ToolUse("update_faint", input))

SpecFaint == Init /\ [][NextFaint]_vars

\* The audio path of one meeting: the rebuffer between the media socket and
\* the transcription socket.
NextRebuffer ==
    \/ starts = 0 /\ WebhookStarted(MeetingA)
    \/ \E i \in DOMAIN sockets : SocketOpens(i)
    \/ \E i \in DOMAIN sockets : SignalingHandshakeResponse(i)
    \/ \E i \in DOMAIN sockets, len \in ChunkSizes :
          Packets < RebufferPushes /\ MediaAudioPacket(i, 7, len)
    \/ \E i \in DOMAIN sockets : StreamingError(i)
    \/ WebhookStopped(MeetingA)
    \/ CloseTimerFires

SpecRebuffer == InitDebug /\ [][NextRebuffer]_vars

\* Audio ingestion of one meeting while the transcription service is out: its
\* socket may never open, be closed by the peer, fail, or throw from send.
NextOutage ==
    \/ starts = 0 /\ WebhookStarted(MeetingA)
    \/ \E i \in DOMAIN sockets : SocketOpens(i)
    \/ \E i \in DOMAIN sockets : SignalingHandshakeResponse(i)
    \/ \E i \in DOMAIN sockets : StreamingError(i)
    \/ \E i \in DOMAIN sockets : SocketCloses(i)
    \/ \E i \in DOMAIN sockets, len \in ChunkSizes, sendThrows \in BOOLEAN :
          Packets < OutagePackets /\ MediaAudioPacketWith(i, 7, len, sendThrows)

SpecOutage == InitDebug /\ [][NextOutage]_vars

\* The end of one meeting: the stop signal may come while the transcription
\* socket is CONNECTING, OPEN, CLOSING or CLOSED, and the service may never
\* answer. The timer of cleanupMeeting fires once its delay has passed, and a
\* socket on which close() was called reaches CLOSED (the socket library ends
\* the closing handshake or gives up on it after its own timeout).
NextStop ==
    \/ starts = 0 /\ WebhookStarted(MeetingA)
    \/ \E i \in DOMAIN sockets : SocketOpens(i)
    \/ \E i \in DOMAIN sockets : SignalingHandshakeResponse(i)
    \/ \E i \in DOMAIN sockets, len \in ChunkSizes :
          Packets < StopPackets /\ MediaAudioPacket(i, 7, len)
    \/ \E i \in DOMAIN sockets : StreamingError(i)
    \/ \E i \in DOMAIN sockets : SocketCloses(i)
    \/ \E m \in Meetings : WebhookStopped(m)
    \/ CloseTimerFires

\* The closing handshake of a transcription socket ends.
TranscriptionCloseCompletes ==
    \E i \in DOMAIN sockets :
        sockets[i].kind = "streaming" /\ sockets[i].readyState = "CLOSING" /\ SocketCloses(i)

SpecStop ==
    /\ InitDebug
    /\ [][NextStop]_vars
    /\ WF_vars(CloseTimerFires)
    /\ WF_vars(TranscriptionCloseCompletes)

\* Speaker tracking of one meeting: audio packets of three participants and
\* manual role assignments; the transcription socket stays unconnected.
AssignIds == {3, 9}
AssignRoles == {"Client", "Advisor"}
SpeakerPacketLen == (SAMPLE_RATE * CHANNELS * BYTES_PER_SAMPLE) \div 10
Assigns == Len(assignLog)

NextSpeakers ==
    \/ starts = 0 /\ WebhookStarted(MeetingA)
    \/ \E i \in DOMAIN sockets : sockets[i].kind # "streaming" /\ SocketOpens(i)
    \/ \E i \in DOMAIN sockets : SignalingHandshakeResponse(i)
    \/ \E i \in DOMAIN sockets, speakerId \in SpeakerIds :
          Packets < SpeakerPackets /\ MediaAudioPacket(i, speakerId, SpeakerPacketLen)
    \/ \E speakerId \in AssignIds, role \in AssignRoles :
          Assigns < SpeakerAssigns /\ AssignSpeaker(speakerId, role)

SpecSpeakers == InitDebug /\ [][NextSpeakers]_vars

\* The current-speaker pointer over a meeting of two participants that is
\* started again.
PointerIds == {3, 7}

NextPointer ==
    \/ starts < PointerStarts /\ WebhookStarted(MeetingA)
    \/ \E i \in DOMAIN sockets : sockets[i].kind # "streaming" /\ SocketOpens(i)
    \/ \E i \in DOMAIN sockets : SignalingHandshakeResponse(i)
    \/ \E i \in DOMAIN sockets, speakerId \in PointerIds :
          Packets < PointerPackets /\ MediaAudioPacket(i, speakerId, SpeakerPacketLen)

SpecPointer == InitDebug /\ [][NextPointer]_vars

\* Manual role assignment of one meeting, before and after the speakers appear.
NextOverride ==
    \/ starts = 0 /\ WebhookStarted(MeetingA)
    \/ \E i \in DOMAIN sockets : sockets[i].kind # "streaming" /\ SocketOpens(i)
    \/ \E i \in DOMAIN sockets : SignalingHandshakeResponse(i)
    \/ \E i \in DOMAIN sockets, speakerId \in SpeakerIds :
          Packets < OverridePackets /\ MediaAudioPacket(i, speakerId, SpeakerPacketLen)
    \/ \E speakerId \in SpeakerIds, role \in Roles \cup {"Advisor"} :
          Assigns < OverrideAssigns /\ AssignSpeaker(speakerId, role)

SpecOverride == InitDebug /\ [][NextOverride]_vars

SpecToolResponses == {<<ToolUse("update_faint", [funds |-> "$2M"])>>, <<SummaryUse>>}

\* Two meetings live at the same time: their start signals, sockets, audio
\* packets, turns and extraction rounds (no meeting is stopped).
NextMeetings ==
    \/ \E m \in Meetings :
          /\ starts < MeetingsStarts
          /\ m \notin DOMAIN audioCollectors
          /\ WebhookStarted(m)
    \/ \E i \in DOMAIN sockets : SocketOpens(i)
    \/ \E i \in DOMAIN sockets : SignalingHandshakeResponse(i)
    \/ \E i \in DOMAIN sockets :
          Packets < MeetingsPackets /\ MediaAudioPacket(i, 7, SpeakerPacketLen)
    \/ \E i \in DOMAIN sockets :
          Turns < MeetingsTurns /\ StreamingMessage(i, TurnMessage(TRUE, "we have $2M"))
    \/ \E t \in DOMAIN tasks, content \in SpecToolResponses :
          apiResponses < MeetingsResponses /\ ToolRound(t, content)
    \/ \E t \in DOMAIN tasks, content \in FinalResponses :
          apiResponses < MeetingsResponses /\ FinalResponse(t, content)

SpecMeetings == InitDebug /\ [][NextMeetings]_vars

\* The turns of one meeting and their labels: two participants speak, a role
\* is set by hand, and the transcription socket delivers messages of every
\* type, finalized or not (the model calls stay pending).
NextLabels ==
    \/ starts = 0 /\ WebhookStarted(MeetingA)
    \/ \E i \in DOMAIN sockets : SocketOpens(i)
    \/ \E i \in DOMAIN sockets : SignalingHandshakeResponse(i)
    \/ \E i \in DOMAIN sockets, speakerId \in PointerIds :
          Packets < LabelPackets /\ MediaAudioPacket(i, speakerId, SpeakerPacketLen)
    \/ \E speakerId \in PointerIds, role \in Roles :
          Assigns < LabelAssigns /\ AssignSpeaker(speakerId, role)
    \/ \E i \in DOMAIN sockets, data \in StreamingMessages :
          Turns < LabelTurns /\ StreamingMessage(i, data)

SpecLabels == InitDebug /\ [][NextLabels]_vars

\* The process from its start to its exit: meetings come and go, sockets
\* deliver malformed messages, the process is signalled; nothing runs after
\* process.exit.
Running == ~process.exited

NextProcess ==
    \/ \E m \in Meetings :
          /\ Running /\ starts < ProcessStarts
          /\ \A i \in DOMAIN sockets : sockets[i].meeting # m
          /\ WebhookStarted(m)
    \/ \E i \in DOMAIN sockets : Running /\ SocketOpens(i)
    \/ \E i \in DOMAIN sockets : Running /\ SignalingHandshakeResponse(i)
    \/ \E i \in DOMAIN sockets :
          Running /\ Packets < ProcessPackets /\ MediaAudioPacket(i, 7, SpeakerPacketLen)
    \/ \E i \in DOMAIN sockets, isJson \in BOOLEAN : Running /\ MalformedMessage(i, isJson)
    \/ \E m \in Meetings : Running /\ WebhookStopped(m)
    \/ Running /\ CloseTimerFires
    \/ Running /\ ShutdownSignal
    \/ Running /\ ProcessExits

SpecProcess == InitDebug /\ [][NextProcess]_vars

\* Two participants speak in turn and the transcription service, which has
\* received audio, emits the finalized Turn some time later.
AttributionLens == {700, TARGET_CHUNK_SIZE}

AudioSentOn(i) == \E k \in DOMAIN sockets[i].sent : sockets[i].sent[k].type = "audio"

NextAttribution ==
    \/ starts = 0 /\ WebhookStarted(MeetingA)
    \/ \E i \in DOMAIN sockets : SocketOpens(i)
    \/ \E i \in DOMAIN sockets : SignalingHandshakeResponse(i)
    \/ \E i \in DOMAIN sockets, speakerId \in PointerIds, len \in AttributionLens :
          Packets < AttributionPackets /\ MediaAudioPacket(i, speakerId, len)
    \/ \E i \in DOMAIN sockets :
          /\ Turns < AttributionTurns
          /\ AudioSentOn(i)
          /\ StreamingMessage(i, TurnMessage(TRUE, "we have $2M"))

SpecAttribution == InitDebug /\ [][NextAttribution]_vars

SdkLens == {700, SdkTARGET_CHUNK_SIZE}

\* The SDK variant: meetings are started and stopped one after the other or
\* with a start signal arriving within the second after a stop (a stop signal
\* comes for a meeting that was started).
NextSdk ==
    \/ sdk.starts < SdkStarts /\ SdkWebhookStarted
    \/ \E i \in DOMAIN sdk.sockets : SdkSocketOpens(i)
    \/ \E i \in DOMAIN sdk.sockets : SdkSocketCloses(i)
    \/ \E i \in DOMAIN sdk.sockets : SdkStreamingError(i)
    \/ \E len \in SdkLens : sdk.pushes < SdkPushes /\ SdkAudioData(len)
    \/ sdk.stops < sdk.starts /\ SdkWebhookStopped
    \/ SdkRecordingDone
    \/ SdkCloseTimerFires

SpecSdk == InitDebug /\ [][NextSdk]_vars

\* The sockets of one meeting from start to stop; the start signal may be
\* delivered again while the meeting is active or after it was stopped.
NextLeak ==
    \/ starts < LeakStarts /\ WebhookStarted(MeetingA)
    \/ \E i \in DOMAIN sockets : SocketOpens(i)
    \/ \E i \in DOMAIN sockets : SignalingHandshakeResponse(i)
    \/ \E i \in DOMAIN sockets : sockets[i].readyState = "CLOSING" /\ SocketCloses(i)
    \/ WebhookStopped(MeetingA)
    \/ CloseTimerFires

SpecLeak == InitDebug /\ [][NextLeak]_vars

\* A start signal that finds the state of an earlier session: speakers seen
\* and assigned, a turn extracted, audio buffered, the meeting stopped or not
\* (the earlier session is the first one; the later ones are started only).
NextRestart ==
    \/ \E m \in Meetings : starts < RestartStarts /\ WebhookStarted(m)
    \/ \E m \in Meetings : starts = 1 /\ WebhookStopped(m)
    \/ \E i \in DOMAIN sockets : starts = 1 /\ SocketOpens(i)
    \/ \E i \in DOMAIN sockets : starts = 1 /\ SignalingHandshakeResponse(i)
    \/ \E i \in DOMAIN sockets :
          starts = 1 /\ Packets < RestartPackets /\ MediaAudioPacket(i, 7, SpeakerPacketLen)
    \/ \E role \in AssignRoles :
          starts = 1 /\ Assigns < RestartAssigns /\ AssignSpeaker(7, role)
    \/ \E i \in DOMAIN sockets :
          /\ starts = 1 /\ Turns < RestartTurns
          /\ StreamingMessage(i, TurnMessage(TRUE, "we have $2M"))
    \/ \E t \in DOMAIN tasks, content \in SpecToolResponses :
          starts = 1 /\ apiResponses < RestartResponses /\ ToolRound(t, content)

SpecRestart == InitDebug /\ [][NextRestart]_vars

\* The whole server: every webhook, socket event, request and
\* continuation.
Next ==
    \/ \E m \in Meetings : starts < MaxStarts /\ WebhookStarted(m)
    \/ \E m \in Meetings : WebhookStopped(m)
    \/ CloseTimerFires
    \/ \E i \in DOMAIN sockets : SocketOpens(i)
    \/ \E i \in DOMAIN sockets : StreamingError(i)
    \/ \E i \in DOMAIN sockets : SocketCloses(i)
    \/ \E i \in DOMAIN sockets : SignalingHandshakeResponse(i)
    \/ \E i \in DOMAIN sockets :
          Packets < MaxAudio /\ MediaAudioPacket(i, 7, SpeakerPacketLen)
    \/ \E role \in AssignRoles :
          Assigns < MaxAssigns /\ AssignSpeaker(7, role)
    \/ \E i \in DOMAIN sockets, data \in StreamingMessages :
          Turns < MaxTurns /\ StreamingMessage(i, data)
    \/ \E t \in DOMAIN tasks, content \in SpecToolResponses :
          apiResponses < MaxResponses /\ ToolRound(t, content)
    \/ \E t \in DOMAIN tasks, content \in FinalResponses :
          apiResponses < MaxResponses /\ FinalResponse(t, content)
    \/ \E t \in DOMAIN tasks, pairing \in BOOLEAN :
          apiResponses < MaxResponses /\ ModelCallFails(t, pairing)
    \/ \E r \in DOMAIN recordings, succeeded \in BOOLEAN : RecordedAudioDone(r, succeeded)

Spec == InitDebug /\ [][Next]_vars

\* A long conversation of one meeting: the history grows past the pruning
\* threshold. While it is short the service delivers a turn only when no model
\* call is in flight and the model answers each turn with one update_summary
\* round and a final text; from HistoryWarm entries on, turns overlap and the
\* model answers as it likes or fails.
Warm == Len(conversationHistory) < HistoryWarm
InFlight == {t \in DOMAIN tasks : tasks[t].pc = "await"}
HistoryToolResponses == {<<SummaryUse>>, <<TextBlock("noted"), ClientInfoUse, ReminderUse>>}
\* What the n-th turn says.
HistoryTranscript(n) == "turn " \o ToString(n)

NextHistory ==
    \/ starts = 0 /\ WebhookStarted(MeetingA)
    \/ \E i \in DOMAIN sockets : sockets[i].kind = "streaming" /\ SocketOpens(i)
    \/ \E i \in DOMAIN sockets :
          /\ Turns < HistoryTurns
          /\ Warm => InFlight = {}
          /\ StreamingMessage(i, TurnMessage(TRUE, HistoryTranscript(Turns + 1)))
    \/ \E t \in DOMAIN tasks, content \in HistoryToolResponses :
          /\ apiResponses < HistoryResponses
          /\ Warm => tasks[t].rounds = 0 /\ content = <<SummaryUse>>
          /\ ToolRound(t, content)
    \/ \E t \in DOMAIN tasks, content \in FinalResponses :
          /\ apiResponses < HistoryResponses
          /\ Warm => tasks[t].rounds = 1 /\ content # <<>>
          /\ FinalResponse(t, content)
    \/ \E t \in DOMAIN tasks, pairing \in BOOLEAN :
          /\ apiResponses < HistoryResponses
          /\ ~Warm
          /\ ModelCallFails(t, pairing)

SpecHistory == InitDebug /\ [][NextHistory]_vars

\* Long conversations with and without a head of entries that are not plain
\* user text. The head comes from a second start signal that arrives while the
\* first turn is awaiting the model: the history is reset and the turn then
\* pushes its tool rounds onto the empty history. After the head the turns are
\* delivered one at a time, each answered by one update_summary round and a
\* final text, until the history holds PruneWarm entries; from there on the
\* model answers each turn as it likes.
HeadPhase == starts = 2 /\ 1 \in InFlight
WarmPrune == Len(conversationHistory) < PruneWarm

NextPrune ==
    \/ starts = 0 /\ WebhookStarted(MeetingA)
    \/ /\ starts = 1 /\ Turns = 1 /\ 1 \in InFlight /\ tasks[1].rounds = 0
       /\ WebhookStarted(MeetingA)
    \/ \E i \in DOMAIN sockets :
          sockets[i].kind = "streaming" /\ sockets[i].closure = 1 /\ SocketOpens(i)
    \/ \E i \in DOMAIN sockets :
          /\ Turns < PruneTurns
          /\ InFlight = {}
          /\ StreamingMessage(i, TurnMessage(TRUE, HistoryTranscript(Turns + 1)))
    \/ \E t \in DOMAIN tasks :
          /\ apiResponses < PruneResponses
          /\ HeadPhase => tasks[t].rounds < PruneHead
          /\ ~HeadPhase /\ WarmPrune => tasks[t].rounds = 0
          /\ ToolRound(t, <<SummaryUse>>)
    \/ \E t \in DOMAIN tasks, content \in FinalResponses :
          /\ apiResponses < PruneResponses
          /\ HeadPhase => content = <<>>
          /\ ~HeadPhase /\ WarmPrune => tasks[t].rounds = 1 /\ content # <<>>
          /\ FinalResponse(t, content)

SpecPrune == InitDebug /\ [][NextPrune]_vars

(***************************************************************************)
(* C1  update_faint merges field by field                                  *)
(***************************************************************************)
\* C1: in every reachable state of a session and for every update_faint input,
\* the call sets exactly the FAINT fields the input provides with a non-empty,
\* non-whitespace, non-sentinel value, each to the provided value, and every
\* other FAINT field (omitted, empty, whitespace or sentinel in the input) keeps
\* the value it had before the call.
C1_FaintMerge ==
    \A input \in FaintInputs :
        LET after == ExecuteTool(financialData, ToolUse("update_faint", input)).faint
        IN \A f \in FaintFields :
            IF /\ f \in DOMAIN input
               /\ input[f] \notin WhitespaceStrings
               /\ input[f] # NotIdentified
            THEN after[f] = input[f]
            ELSE after[f] = financialData.faint[f]

\* C1 witness: a later update_faint call has set timing and left funds, set by
\* an earlier call, as it was; the other fields were never provided.
C1_Witness ==
    /\ financialData.faint["funds"] = "$2M"
    /\ financialData.faint["timing"] = "5 years"
    /\ \A f \in FaintFields \ {"funds", "timing"} : financialData.faint[f] = NotIdentified

(***************************************************************************)
(* C2  qualification data is never erased within a session                 *)
(***************************************************************************)
\* The update_faint inputs of the tool-call entries of the history, in order.
FaintCallsAt(k) ==
    conversationHistory[k].role = "assistant"
    /\ \E b \in DOMAIN conversationHistory[k].blocks :
          conversationHistory[k].blocks[b].name = "update_faint"

\* C2: on every step that is not a start signal, whatever the tool calls of the
\* step, a FAINT field holding a non-sentinel value before the step holds a
\* non-sentinel, non-blank value after it; and no field ever holds a blank value.
C2_NeverErased ==
    [][/\ \A f \in FaintFields : ~IsBlank(financialData'.faint[f])
       /\ starts' = starts =>
             \A f \in FaintFields :
                 financialData.faint[f] # NotIdentified
                    => financialData'.faint[f] # NotIdentified]_vars

\* C2 witness: funds was set, a later call of the same session then provided the
\* sentinel for funds, and funds still holds the value.
C2_Witness ==
    /\ financialData.faint["funds"] = "$2M"
    /\ \E k \in DOMAIN conversationHistory, j \in DOMAIN conversationHistory :
          /\ j < k
          /\ FaintCallsAt(j) /\ conversationHistory[j].blocks[1].input = [funds |-> "$2M"]
          /\ FaintCallsAt(k)
          /\ conversationHistory[k].blocks[1].input = [funds |-> NotIdentified]

(***************************************************************************)
(* C3  the five lists are append-only                                      *)
(***************************************************************************)
ListNames == {"summary", "clientInfo", "advisorReminders", "concerns", "strategicQuestions"}

\* The list a tool appends to and the element it appends.
ListOf(toolUse) ==
    CASE toolUse.name = "update_summary" -> "summary"
      [] toolUse.name = "update_client_info" -> "clientInfo"
      [] toolUse.name = "update_advisor_reminders" -> "advisorReminders"
      [] toolUse.name = "update_concerns" -> "concerns"
      [] toolUse.name = "update_strategic_questions" -> "strategicQuestions"
ElementOf(toolUse) ==
    CASE toolUse.name = "update_summary" -> toolUse.input.new_point
      [] toolUse.name = "update_client_info" -> toolUse.input.new_info
      [] toolUse.name = "update_advisor_reminders" -> toolUse.input.new_reminder
      [] toolUse.name = "update_concerns" -> toolUse.input.new_concern
      [] toolUse.name = "update_strategic_questions" -> toolUse.input.new_question

IsPrefix(s, t) == Len(s) <= Len(t) /\ SubSeq(t, 1, Len(s)) = s

\* Each list-tool call appends exactly one element at the end of its own list
\* and leaves the other lists and the FAINT record unchanged.
C3_EachCallAppendsOne ==
    \A u \in ListToolUses :
        LET after == ExecuteTool(financialData, u)
        IN /\ after[ListOf(u)] = Append(financialData[ListOf(u)], ElementOf(u))
           /\ \A l \in ListNames \ {ListOf(u)} : after[l] = financialData[l]
           /\ after.faint = financialData.faint

\* C3: with no start signal in between, every list only grows at its end (its
\* length never decreases and its earlier elements stay); and each
\* update_summary / update_client_info / update_advisor_reminders /
\* update_concerns / update_strategic_questions call appends exactly one element
\* to its own list and leaves the other lists unchanged.
C3_AppendOnly ==
    /\ []C3_EachCallAppendsOne
    /\ [][starts' = starts =>
            \A l \in ListNames : IsPrefix(financialData[l], financialData'[l])]_vars

\* C3 witness: two tool-call rounds of one session have grown three lists.
C3_Witness ==
    /\ Len(financialData.summary) = 1
    /\ Len(financialData.clientInfo) = 1
    /\ Len(financialData.advisorReminders) = 1
    /\ Len(conversationHistory) >= 5

(***************************************************************************)
(* C4  the rebuffer: frame sizes and byte accounting                       *)
(***************************************************************************)
\* The audio frames sent on the transcription socket of collector c, in order.
IsAudio(msg) == msg.type = "audio"
FramesOf(c) ==
    LET ws == collectors[c].streamingWs
        audio == SelectSeq(sockets[ws].sent, IsAudio)
    IN [k \in DOMAIN audio |-> audio[k].data]

\* The first n bytes of the stream.
Whole(n) == IF n = 0 THEN <<>> ELSE <<[lo |-> 0, hi |-> n]>>

\* cleanupMeeting has run for collector c (the final flush is behind it).
Cleaned(c) ==
    collectors[c].stopRequested /\ \A m \in DOMAIN audioCollectors : audioCollectors[m] # c

RECURSIVE CoveredFrom(_, _)
\* The offset up to which the ranges of the set tile the stream from offset
\* from, without gap or overlap; -1 when they do not.
CoveredFrom(ranges, from) ==
    IF ranges = {} THEN from
    ELSE LET r == CHOOSE x \in ranges : \A y \in ranges : x.lo <= y.lo
         IN IF r.lo = from THEN CoveredFrom(ranges \ {r}, r.hi) ELSE 0 - 1

\* The buffers of the list partition the first n bytes of the stream.
Partition(list, n) ==
    LET ranges == Flatten(list)
    IN /\ BufLen(ranges) = n
       /\ CoveredFrom({ranges[k] : k \in DOMAIN ranges}, 0) = n

\* C4 (as stated): once the meeting is cleaned up, and even when the socket is
\* OPEN at the flush, every frame before the last has TARGET_CHUNK_SIZE bytes and
\* the frames sent, concatenated in emission order, are the N bytes pushed.
C4_Original ==
    \A c \in DOMAIN collectors :
        Cleaned(c) /\ sockets[collectors[c].streamingWs].readyState = "OPEN"
        => LET frames == FramesOf(c)
           IN /\ \A k \in 1..(Len(frames) - 1) : BufLen(frames[k]) = TARGET_CHUNK_SIZE
              /\ BufConcat(frames) = Whole(collectors[c].totalBytes)

\* C4 (amended): every frame sent before the final flush has exactly
\* TARGET_CHUNK_SIZE bytes; the frames sent are, in emission order, increasing
\* disjoint pieces of the N bytes pushed; together with the audio the code
\* discards (a frame cut while the socket is not OPEN, a final remainder below
\* minChunkSize or flushed while the socket is not OPEN) and the bytes still
\* buffered they make up the N bytes exactly once each; so after the flush the
\* frames reproduce the N bytes exactly when nothing was discarded.
C4_Rebuffer ==
    \A c \in DOMAIN collectors :
        LET frames == FramesOf(c)
            n == collectors[c].totalBytes
        IN /\ \A k \in DOMAIN frames :
                 \/ BufLen(frames[k]) = TARGET_CHUNK_SIZE
                 \/ k = Len(frames) /\ Cleaned(c)
           /\ \A j \in DOMAIN frames, k \in DOMAIN frames :
                 j < k => Last(frames[j]).hi <= Head(frames[k]).lo
           /\ Partition(frames \o dropped[c] \o collectors[c].audioBuffer, n)
           /\ Cleaned(c) =>
                 (BufConcat(frames) = Whole(n) <=> dropped[c] = <<>>)

\* C4 witness: pushes in several packets crossed the frame size once, the
\* meeting was cleaned up with the socket OPEN and the flush sent the remainder:
\* a full frame and a shorter final frame reproduce the bytes pushed.
C4_Witness ==
    \E c \in DOMAIN collectors :
        /\ Cleaned(c)
        /\ collectors[c].chunkCount >= 3
        /\ Len(FramesOf(c)) = 2
        /\ BufLen(FramesOf(c)[1]) = TARGET_CHUNK_SIZE
        /\ BufLen(FramesOf(c)[2]) \in minChunkSize..(TARGET_CHUNK_SIZE - 1)
        /\ BufConcat(FramesOf(c)) = Whole(collectors[c].totalBytes)

(***************************************************************************)
(* C5  auto-assignment by order of first appearance                        *)
(***************************************************************************)
RECURSIVE FirstAppearances(_)
\* The distinct elements of a sequence in the order of their first appearance.
FirstAppearances(log) ==
    IF log = <<>> THEN <<>>
    ELSE LET before == FirstAppearances(SubSeq(log, 1, Len(log) - 1))
         IN IF \E k \in DOMAIN before : before[k] = Last(log)
            THEN before ELSE Append(before, Last(log))

TrackedRole(users, speakerId) ==
    LET k == CHOOSE j \in DOMAIN users : users[j].id = speakerId IN users[k].role

\* A packet of this speaker is accepted in this step.
Accepted(speakerId) == packetLog' = Append(packetLog, speakerId)

\* C5: the speakers tracked are the distinct speaker ids of the packets accepted
\* since the start signal in their order of first appearance; the packet that
\* brings the first one makes it Consultant, the one that brings the second makes
\* it Client, whatever the ids are; the packet that brings a later one tracks it
\* as Unassigned and leaves the role map alone, and later packets change no role.
C5_OrderOfAppearance ==
    /\ [](/\ Len(detectedUsers) = Len(FirstAppearances(packetLog))
          /\ \A k \in DOMAIN detectedUsers :
                detectedUsers[k].id = FirstAppearances(packetLog)[k])
    /\ [][\A speakerId \in SpeakerIds :
            Accepted(speakerId) =>
                IF speakerId \in DetectedUserIds(detectedUsers)
                THEN UNCHANGED <<detectedUsers, speakerMapping>>
                ELSE LET rank == Len(detectedUsers) + 1
                         role == TrackedRole(detectedUsers', speakerId)
                     IN /\ rank = 1 =>
                              role = "Consultant"
                              /\ speakerMapping' = MapSet(speakerMapping, speakerId, "Consultant")
                        /\ rank = 2 =>
                              role = "Client"
                              /\ speakerMapping' = MapSet(speakerMapping, speakerId, "Client")
                        /\ rank > 2 =>
                              role = "Unassigned" /\ speakerMapping' = speakerMapping
                        /\ \A k \in DOMAIN detectedUsers : detectedUsers'[k] = detectedUsers[k]]_vars

\* C5 witness: three speakers appeared in the order 9, 3, 7, none was assigned
\* by hand: 9 is the Consultant, 3 the Client and 7 is tracked without a role.
C5_Witness ==
    /\ FirstAppearances(packetLog) = <<9, 3, 7>>
    /\ assignLog = <<>>
    /\ detectedUsers = <<[id |-> 9, role |-> "Consultant"], [id |-> 3, role |-> "Client"],
                         [id |-> 7, role |-> "Unassigned"]>>
    /\ DOMAIN speakerMapping = {3, 9}
    /\ speakerMapping[9] = "Consultant" /\ speakerMapping[3] = "Client"

(***************************************************************************)
(* C6  manual assignment is idempotent                                     *)
(***************************************************************************)
\* C6: in every reachable speaker state, for every speaker id and every valid
\* role, the assign request made a second time with the same id and role leaves
\* detectedSpeakers, speakerMapping and the tracked roles as the first left them.
C6_AssignIdempotent ==
    \A speakerId \in SpeakerIds, role \in Roles :
        LET once == AssignEffect(SpeakerState, speakerId, role)
        IN AssignEffect(once, speakerId, role) = once

\* C6 witness: the same assignment was made twice in a row, for a speaker that
\* is tracked and had been given another role automatically.
C6_Witness ==
    /\ Len(assignLog) = 2
    /\ assignLog[1] = assignLog[2]
    /\ assignLog[1] = [speakerId |-> 3, role |-> "Client"]
    /\ detectedUsers = <<[id |-> 3, role |-> "Client"]>>
    /\ speakerMapping = MapSet(EmptyMap, 3, "Client")

(***************************************************************************)
(* C8  the current-speaker pointer                                         *)
(***************************************************************************)
\* C8: the current-speaker pointer is the speaker id of the last packet accepted
\* since the start signal, and null when none was accepted; after the packets
\* 7, 7, 3, 7, 3 and no manual assignment, 7 is Consultant and 3 is Client.
C8_CurrentSpeaker ==
    /\ currentSpeakerId = IF packetLog = <<>> THEN NoSpeaker ELSE Last(packetLog)
    /\ packetLog = <<7, 7, 3, 7, 3>> /\ assignLog = <<>> =>
          /\ speakerMapping = MapSet(MapSet(EmptyMap, 7, "Consultant"), 3, "Client")
          /\ detectedUsers = <<[id |-> 7, role |-> "Consultant"], [id |-> 3, role |-> "Client"]>>

\* C8 witness: the packets 7, 7, 3, 7, 3 were accepted after the second start
\* signal, which had reset the pointer; the pointer is at 3.
C8_Witness ==
    /\ starts = 2
    /\ packetLog = <<7, 7, 3, 7, 3>>
    /\ currentSpeakerId = 3
    /\ speakerMapping[7] = "Consultant" /\ speakerMapping[3] = "Client"

(***************************************************************************)
(* C7  after stop and finalization                                         *)
(***************************************************************************)
\* The meeting was stopped and its recorded audio processed to the end.
Finalized(m) ==
    /\ m \notin DOMAIN audioCollectors
    /\ \E r \in DOMAIN recordings : recordings[r].meetingId = m /\ recordings[r].pc = "done"

\* C7 (as stated): once a meeting is stopped and finalized, no step other than
\* its own next start signal changes its Session Record or its final report.
C7_Original ==
    [][\A m \in Meetings :
          Finalized(m) /\ conversationId = Sanitize(m) /\ ~WebhookStarted(m)
          => /\ financialData' = financialData
             /\ ReportFile(m) \in DOMAIN files =>
                   /\ ReportFile(m) \in DOMAIN files'
                   /\ files'[ReportFile(m)] = files[ReportFile(m)]]_vars

(***************************************************************************)
(* C9  isolation of concurrent meetings                                    *)
(***************************************************************************)
Active(m) == m \in DOMAIN audioCollectors

\* A step that handles an event of meeting m: its start signal, or a message on
\* one of its sockets.
EventOf(m) ==
    \/ WebhookStarted(m)
    \/ \E i \in DOMAIN sockets :
          /\ sockets[i].meeting = m
          /\ \/ MediaAudioPacket(i, 7, SpeakerPacketLen)
             \/ StreamingMessage(i, TurnMessage(TRUE, "we have $2M"))

\* C9 (as stated): while meeting a is active, no event of another meeting b
\* changes the Session Record, the Conversation Context, the speaker map, the
\* current-speaker pointer or the transcript buffer a works with.
C9_Original ==
    [][\A a \in Meetings, b \in Meetings :
          a # b /\ Active(a) /\ conversationId = Sanitize(a) /\ EventOf(b)
          => UNCHANGED <<financialData, conversationHistory, speakerMapping, detectedUsers,
                         currentSpeakerId, liveTranscripts>>]_vars

(***************************************************************************)
(* C10  one turn at a time                                                 *)
(***************************************************************************)
\* C10 (as stated): a turn's user entry is appended to conversationHistory only
\* when every earlier turn of the meeting has been processed to the end.
C10_Original ==
    [][Len(tasks') > Len(tasks) =>
          \A t \in DOMAIN tasks :
              tasks[t].meeting = Last(tasks').meeting => tasks[t].pc = "done"]_vars

(***************************************************************************)
(* C11  tool results stay paired with their tool calls                     *)
(***************************************************************************)
IsToolUseBlock(block) == block.type = "tool_use"
BlockIds(blocks) == [k \in DOMAIN blocks |-> blocks[k].id]

\* Every tool-result entry of the list comes right after an assistant entry
\* with tool_use blocks and holds one tool_result per tool_use block of that
\* entry, in its order and with its ids.
WellPaired(history) ==
    \A k \in DOMAIN history :
        history[k].role = "user" /\ history[k].isArray
        => /\ k > 1
           /\ history[k - 1].role = "assistant" /\ history[k - 1].isArray
           /\ HasToolUse(history[k - 1])
           /\ \A j \in DOMAIN history[k].blocks : history[k].blocks[j].type = "tool_result"
           /\ BlockIds(history[k].blocks)
                 = BlockIds(SelectSeq(history[k - 1].blocks, IsToolUseBlock))

\* C11: conversationHistory and the message list of every model call are well
\* paired in every reachable state: after pruning, after the fallback reset and
\* with turns processed in an interleaved way.
C11_ToolResultsPaired ==
    /\ WellPaired(conversationHistory)
    /\ \A t \in DOMAIN tasks : WellPaired(tasks[t].messages)

\* C11 witness: the history was pruned (its first turn is gone while tool-result
\* entries remain) and a model call is in flight whose messages hold a
\* tool-result entry with two results behind an assistant entry of three blocks.
C11_Witness ==
    /\ Turns >= 8
    /\ Len(conversationHistory) >= PruneKeep
    /\ Len(conversationHistory) < 4 * Turns - 8
    /\ \E k \in DOMAIN conversationHistory :
          conversationHistory[k].role = "user" /\ conversationHistory[k].isArray
    /\ \E t \in InFlight : \E k \in DOMAIN tasks[t].messages :
          /\ tasks[t].messages[k].role = "user" /\ tasks[t].messages[k].isArray
          /\ Len(tasks[t].messages[k].blocks) = 2
          /\ Len(tasks[t].messages[k - 1].blocks) = 3

(***************************************************************************)
(* C12  manual assignment: invalid roles and unseen speakers               *)
(***************************************************************************)
InvalidRoles == {"Advisor", "consultant", ""}

\* C12: in every reachable state, the assign request with a role outside the
\* three known ones answers 400 'Invalid role' and leaves the speaker state as it
\* is; with a valid role it answers success for every speaker id, seen in audio
\* or not, and the id is then in detectedSpeakers and mapped to that role. The
\* handler's step changes the speaker state in just that way.
C12_AssignValidation ==
    /\ [](\A speakerId \in SpeakerIds, role \in Roles \cup InvalidRoles :
            LET after == AssignEffect(SpeakerState, speakerId, role)
                response == AssignResponse(speakerId, role)
            IN IF role \in Roles
               THEN /\ response.status = 200 /\ response.success
                    /\ response.speakerId = speakerId /\ response.role = role
                    /\ speakerId \in after.detectedSpeakers
                    /\ speakerId \in DOMAIN after.speakerMapping
                    /\ after.speakerMapping[speakerId] = role
               ELSE /\ response.status = 400 /\ response.error = "Invalid role"
                    /\ after = SpeakerState)
    /\ [][\A speakerId \in SpeakerIds, role \in Roles \cup InvalidRoles :
            AssignSpeaker(speakerId, role) =>
                IF role \in Roles
                THEN /\ speakerId \in detectedSpeakers'
                     /\ speakerId \in DOMAIN speakerMapping'
                     /\ speakerMapping'[speakerId] = role
                ELSE UNCHANGED speakerVars]_vars

\* C12 witness: speaker 9 was never heard (the packets came from 3 and 7) and
\* was assigned Client by request: it is registered and mapped.
C12_Witness ==
    /\ packetLog = <<3, 7>>
    /\ assignLog = <<[speakerId |-> 9, role |-> "Client"]>>
    /\ 9 \in detectedSpeakers
    /\ 9 \notin DetectedUserIds(detectedUsers)
    /\ speakerMapping[9] = "Client"

(***************************************************************************)
(* C13  a failed model call                                                *)
(***************************************************************************)
\* C13 (as stated): when a model call of a turn fails, in whatever round, the
\* Session Record is what it was when the turn began.
C13_Original ==
    [][\A t \in DOMAIN tasks, pairing \in BOOLEAN :
          ModelCallFails(t, pairing) => financialData' = tasks[t].before]_vars

(***************************************************************************)
(* C14  recovery from a pairing error                                      *)
(***************************************************************************)
\* The indices of the plain-text user entries of a history, and those of them
\* that have fewer than 5 such entries after them.
PlainUserIndices(history) == {k \in DOMAIN history : IsPlainUser(history[k])}
RecentPlainUserIndices(history) ==
    {k \in PlainUserIndices(history) :
        Cardinality({j \in PlainUserIndices(history) : j > k}) < 5}

\* C14: the step that handles a failed model call whose error names the
\* tool-call pairing leaves in conversationHistory exactly the plain-text user
\* entries that were among the 5 most recent ones, in their order, and nothing
\* else; it changes neither the Session Record nor any other turn in flight,
\* and ends the failed turn.
C14_PairingRecovery ==
    [][\A t \in DOMAIN tasks :
          ModelCallFails(t, TRUE) =>
              LET recent == RecentPlainUserIndices(conversationHistory)
              IN /\ Len(conversationHistory') = Cardinality(recent)
                 /\ Len(conversationHistory') <= 5
                 /\ \A k \in recent :
                       conversationHistory'[Cardinality({j \in recent : j <= k})]
                          = conversationHistory[k]
                 /\ \A k \in DOMAIN conversationHistory' :
                       /\ conversationHistory'[k].role = "user"
                       /\ ~conversationHistory'[k].isArray
                 /\ financialData' = financialData
                 /\ tasks'[t].pc = "done"
                 /\ \A u \in DOMAIN tasks \ {t} : tasks'[u] = tasks[u]]_vars

\* C14 witness: the history was reset to the user entries of turns 3 to 7 while
\* the summary points of seven turns were kept, and turn 8 was then processed
\* to its end on top of them.
C14_Witness ==
    /\ Len(conversationHistory) = 9
    /\ \A k \in 1..6 :
          conversationHistory[k] = UserText("Speaker null: " \o HistoryTranscript(k + 2))
    /\ conversationHistory[8].role = "user" /\ conversationHistory[8].isArray
    /\ conversationHistory[9].role = "assistant"
    /\ InFlight = {}
    /\ Len(financialData.summary) = 8

(***************************************************************************)
(* C15  the final flush                                                    *)
(***************************************************************************)
\* C15: the stop signal's flush sends the whole buffered remainder as one frame
\* when it has at least minChunkSize bytes and the transcription socket is OPEN,
\* and sends no frame otherwise; the buffer is empty afterwards and one more
\* flush of the collector would send nothing.
C15_Flush ==
    [][\A m \in Meetings, c \in DOMAIN collectors :
          WebhookStopped(m) /\ m \in DOMAIN audioCollectors /\ audioCollectors[m] = c =>
              LET remainder == BufConcat(collectors[c].audioBuffer)
                  ws == collectors[c].streamingWs
              IN /\ FramesOf(c)' =
                       IF /\ BufLen(remainder) >= minChunkSize
                          /\ sockets[ws].readyState = "OPEN"
                       THEN Append(FramesOf(c), remainder)
                       ELSE FramesOf(c)
                 /\ collectors'[c].audioBuffer = <<>>
                 /\ Flushed(collectors'[c], sockets') = sockets']_vars

\* C15 witness: a meeting was stopped with its socket OPEN (Terminate was sent)
\* and a remainder below minChunkSize: one full frame had been sent, the
\* remainder was discarded and the buffer is empty.
C15_Witness ==
    \E c \in DOMAIN collectors :
        /\ Cleaned(c)
        /\ collectors[c].audioBuffer = <<>>
        /\ Len(FramesOf(c)) = 1
        /\ Len(dropped[c]) = 1
        /\ BufLen(dropped[c][1]) \in 1..(minChunkSize - 1)
        /\ \E k \in DOMAIN sockets[collectors[c].streamingWs].sent :
              sockets[collectors[c].streamingWs].sent[k] = TerminateMessage

(***************************************************************************)
(* C16  audio ingestion survives a transcription outage                    *)
(***************************************************************************)
\* C16: whatever the state of the transcription socket (CONNECTING, OPEN,
\* CLOSING, CLOSED, or send throwing), the handling of an accepted audio packet
\* completes and nothing is raised: the packet is counted, the buffer is cut as
\* usual, at most the one cut frame is sent, nothing is sent on a socket that is
\* not OPEN, and a cut frame that is not sent is dropped.
C16_IngestionSurvivesOutage ==
    /\ []~raised
    /\ [][\A c \in DOMAIN collectors :
            Packets' = Packets + 1 /\ (\E m \in DOMAIN audioCollectors : audioCollectors[m] = c) =>
                LET ws == collectors[c].streamingWs
                    buffered == BufConcat(collectors[c].audioBuffer
                                    \o <<Last(collectors'[c].audioChunks)>>)
                    full == BufLen(buffered) >= TARGET_CHUNK_SIZE
                    frame == BufTake(buffered, TARGET_CHUNK_SIZE)
                IN /\ collectors'[c].chunkCount = collectors[c].chunkCount + 1
                   /\ BufConcat(collectors'[c].audioBuffer) =
                         IF full THEN BufDrop(buffered, TARGET_CHUNK_SIZE) ELSE buffered
                   /\ FramesOf(c)' \in {FramesOf(c), Append(FramesOf(c), frame)}
                   /\ sockets[ws].readyState # "OPEN" \/ ~full => sockets' = sockets
                   /\ dropped'[c] = IF full /\ sockets' = sockets
                                    THEN Append(dropped[c], frame) ELSE dropped[c]]_vars

\* C16 witness: on a socket that is still OPEN one frame went out and the next
\* one was cut and lost because send threw; both packets were counted and the
\* collector goes on accepting audio.
C16_Witness ==
    \E c \in DOMAIN collectors :
        /\ ~collectors[c].stopRequested
        /\ sockets[collectors[c].streamingWs].readyState = "OPEN"
        /\ collectors[c].chunkCount = 2
        /\ Len(FramesOf(c)) = 1
        /\ Len(dropped[c]) = 1
        /\ Last(FramesOf(c)[1]).hi <= Head(dropped[c][1]).lo
        /\ ~raised

(***************************************************************************)
(* C17  the stop signal closes the transcription socket                    *)
(***************************************************************************)
IsTerminate(msg) == msg.type = "Terminate"
TerminatesOn(socks, ws) == Len(SelectSeq(socks[ws].sent, IsTerminate))

\* The collectors of meeting m that cleanupMeeting has run for.
StoppedCollectors(m) ==
    {c \in DOMAIN collectors :
        Cleaned(c) /\ sockets[collectors[c].streamingWs].meeting = m}

\* C17: the stop signal of an active meeting sends Terminate on its
\* transcription socket exactly when the socket is OPEN (and nothing else ever
\* sends Terminate), it schedules the close timer whatever the state of the
\* socket, the timer calls close() on the socket, and the socket of a stopped
\* meeting is eventually CLOSED.
C17_StopClosesTranscription ==
    /\ [][\A c \in DOMAIN collectors :
            LET ws == collectors[c].streamingWs
                stopping == \E m \in Meetings :
                               /\ m \in DOMAIN audioCollectors
                               /\ audioCollectors[m] = c
                               /\ WebhookStopped(m)
            IN /\ stopping =>
                    /\ TerminatesOn(sockets', ws) = TerminatesOn(sockets, ws) +
                          (IF sockets[ws].readyState = "OPEN" THEN 1 ELSE 0)
                    /\ timers' = Append(timers, c)
               /\ ~stopping => TerminatesOn(sockets', ws) = TerminatesOn(sockets, ws)
               /\ CloseTimerFires /\ Head(timers) = c =>
                    /\ sockets'[ws].closeCalls = sockets[ws].closeCalls + 1
                    /\ sockets'[ws].readyState \in {"CLOSING", "CLOSED"}]_vars
    /\ \A m \in Meetings :
          (StoppedCollectors(m) # {}) ~>
              (\A c \in StoppedCollectors(m) :
                  sockets[collectors[c].streamingWs].readyState = "CLOSED")

\* C17 witness: the meeting was stopped with audio accepted and the socket
\* OPEN, Terminate went out, the timer called close() and the socket is CLOSED.
C17_Witness ==
    \E c \in StoppedCollectors(MeetingA) :
        LET ws == collectors[c].streamingWs
        IN /\ collectors[c].chunkCount > 0
           /\ TerminatesOn(sockets, ws) = 1
           /\ sockets[ws].closeCalls = 1
           /\ sockets[ws].readyState = "CLOSED"
           /\ timers = <<>>

C19_ErrorStopsForwarding ==
    /\ [][\A i \in DOMAIN sockets :
            StreamingError(i) => collectors'[sockets[i].closure].stopRequested]_vars
    /\ [][\A c \in DOMAIN collectors :
            collectors[c].stopRequested => collectors'[c].stopRequested]_vars
    /\ [](\A c \in DOMAIN collectors, i \in DOMAIN sockets :
            /\ collectors[c].stopRequested
            /\ sockets[i].kind = "media"
            /\ sockets[i].meeting = sockets[collectors[c].streamingWs].meeting
            => \A speakerId \in SpeakerIds, len \in ChunkSizes :
                  ~ENABLED (/\ MediaAudioPacket(i, speakerId, len)
                            /\ \/ sockets'[collectors[c].streamingWs].sent #
                                      sockets[collectors[c].streamingWs].sent
                               \/ TotalBuffered(collectors'[c].audioBuffer) >
                                      TotalBuffered(collectors[c].audioBuffer)))

\* C19 witness: audio was being buffered for the meeting when its transcription
\* socket failed; the meeting is still registered, its media socket is OPEN and
\* a further packet can arrive.
C19_Witness ==
    \E c \in DOMAIN collectors, i \in DOMAIN sockets :
        /\ MeetingA \in DOMAIN audioCollectors /\ audioCollectors[MeetingA] = c
        /\ collectors[c].stopRequested
        /\ sockets[collectors[c].streamingWs].readyState \in {"CLOSING", "CLOSED"}
        /\ collectors[c].audioBuffer # <<>>
        /\ Len(FramesOf(c)) = 1
        /\ sockets[i].kind = "media" /\ sockets[i].readyState = "OPEN"
        /\ ENABLED MediaAudioPacket(i, 7, TARGET_CHUNK_SIZE)

(***************************************************************************)
(* C20  teardown after a transport error                                   *)
(***************************************************************************)
\* The transcription socket of the registered collector of meeting m failed.
TransportFailed(m) ==
    /\ m \in DOMAIN audioCollectors
    /\ collectors[audioCollectors[m]].stopRequested

\* Meeting m is in no registry and none of its sockets is CONNECTING or OPEN.
TornDown(m) ==
    /\ m \notin DOMAIN audioCollectors
    /\ m \notin DOMAIN activeConnections
    /\ \A i \in DOMAIN sockets :
          sockets[i].meeting = m => sockets[i].readyState \in {"CLOSING", "CLOSED"}

\* C20 (as stated): after an error on the transcription socket of a meeting
\* the meeting is eventually torn down, with or without a stop signal: it
\* leaves both registries and its audio-source sockets are closed.
C20_Original ==
    \A m \in Meetings : TransportFailed(m) ~> TornDown(m)

(***************************************************************************)
(* C21  the Session Record is persisted after every mutation batch         *)
(***************************************************************************)
\* C21 (as stated): whenever the processing of a turn ends after at least one
\* round of tool calls, the log file of the session id holds conversationHistory
\* and financialData as they are at that moment.
C21_Original ==
    [][\A t \in DOMAIN tasks :
          tasks[t].pc = "await" /\ tasks'[t].pc = "done" /\ tasks[t].rounds >= 1 =>
              /\ LogFile(conversationId) \in DOMAIN files'
              /\ files'[LogFile(conversationId)] =
                    [conversationHistory |-> conversationHistory',
                     financialData |-> financialData']]_vars

(***************************************************************************)
(* C22  what the dashboard observes                                        *)
(***************************************************************************)
\* The Session Records as they stood when the processing of a turn ended, and
\* the empty record.
SettledRecords ==
    {EmptyFinancialData} \cup {tasks[t].after : t \in {u \in DOMAIN tasks : tasks[u].pc = "done"}}

\* C22 (as stated): in every state, and so at every poll, the record returned by
\* GET /api/dashboard is the Session Record as it stood at the end of some
\* turn, or the empty record.
C22_Original == Dashboard.financial_data \in SettledRecords

(***************************************************************************)
(* C23  malformed and unexpected inbound messages                          *)
(***************************************************************************)
\* C23 (as stated): a message that is not JSON, or of an unexpected type, on
\* any socket of a meeting changes no state and does not end the process.
C23_Original ==
    [][\A i \in DOMAIN sockets, isJson \in BOOLEAN :
          MalformedMessage(i, isJson) => UNCHANGED vars]_vars

(***************************************************************************)
(* C24  teardown on the fatal paths                                        *)
(***************************************************************************)
\* C24 (as stated): every handler of a fatal event (the ones that set the exit
\* timer: SIGINT, SIGTERM, uncaughtException) starts the teardown of every
\* meeting still registered, so none is registered when it returns.
C24_Original ==
    [][process'.exitTimers # process.exitTimers /\ ~process'.exited
          => DOMAIN audioCollectors' = {}]_vars

(***************************************************************************)
(* C25  partial turns are transient                                        *)
(***************************************************************************)
\* The Turn messages that are not finalized or carry no text.
PartialTurns ==
    {data \in StreamingMessages :
        data.type = "Turn" /\ (~data.turn_is_formatted \/ data.transcript \in WhitespaceStrings)}

\* C25: in every state, a Turn message that is not formatted, or whose text is
\* empty or whitespace, can be delivered on a transcription socket that takes
\* messages, and its handling adds no entry to the transcript buffer, appends
\* nothing to conversationHistory, starts no extraction call and changes no
\* field of the Session Record.
C25_PartialTurnsTransient ==
    \A i \in DOMAIN sockets, data \in PartialTurns :
        sockets[i].kind = "streaming" /\ sockets[i].readyState \in {"OPEN", "CLOSING"} =>
            /\ ENABLED StreamingMessage(i, data)
            /\ ~ENABLED (/\ StreamingMessage(i, data)
                         /\ \/ liveTranscripts' # liveTranscripts
                            \/ conversationHistory' # conversationHistory
                            \/ tasks' # tasks
                            \/ apiResponses' # apiResponses
                            \/ financialData' # financialData)

\* C25 witness: a finalized turn is in the buffer and in the history, and on the
\* OPEN transcription socket an unformatted Turn with text can be delivered.
C25_Witness ==
    \E i \in DOMAIN sockets :
        /\ sockets[i].kind = "streaming" /\ sockets[i].readyState = "OPEN"
        /\ liveTranscripts # <<>>
        /\ conversationHistory # <<>>
        /\ currentSpeakerId # NoSpeaker
        /\ TurnMessage(FALSE, "we have $2M") \in PartialTurns
        /\ ENABLED StreamingMessage(i, TurnMessage(FALSE, "we have $2M"))

(***************************************************************************)
(* C26  the label of a finalized turn                                      *)
(***************************************************************************)
\* The role of the current speaker, and the label the turn should carry.
CurrentRole ==
    IF currentSpeakerId \in DOMAIN speakerMapping
    THEN speakerMapping[currentSpeakerId] ELSE "Unassigned"
ExpectedLabel ==
    IF CurrentRole \in {"Consultant", "Client"}
    THEN CurrentRole ELSE "Speaker " \o ToString(currentSpeakerId)

\* C26 (as stated): the text handed to the extractor for a finalized turn is
\* the role of the current speaker when that is Consultant or Client, and
\* "Speaker {id}" when it is Unassigned, followed by ": " and the transcript.
C26_Original ==
    [][\A i \in DOMAIN sockets, data \in StreamingMessages :
          /\ IsFinalTurn(data)
          /\ currentSpeakerId # NoSpeaker
          /\ StreamingMessage(i, data)
          => Last(tasks').transcript = ExpectedLabel \o ": " \o data.transcript]_vars

(***************************************************************************)
(* C27  one call of sendToAssemblyAI                                       *)
(***************************************************************************)
\* C27: the handling of an accepted packet sends at most one frame; with the
\* socket OPEN it sends a frame exactly when the bytes buffered, the new chunk
\* included, are at least TARGET_CHUNK_SIZE, the frame is the first
\* TARGET_CHUNK_SIZE of them, and the bytes after them stay buffered in order
\* (all the bytes, when no frame is cut).
C27_OneFramePerCall ==
    [][\A c \in DOMAIN collectors :
          Packets' = Packets + 1 /\ (\E m \in DOMAIN audioCollectors : audioCollectors[m] = c) =>
              LET ws == collectors[c].streamingWs
                  buffered == BufConcat(collectors[c].audioBuffer
                                  \o <<Last(collectors'[c].audioChunks)>>)
                  full == BufLen(buffered) >= TARGET_CHUNK_SIZE
              IN /\ Len(FramesOf(c)') <= Len(FramesOf(c)) + 1
                 /\ sockets[ws].readyState = "OPEN" =>
                       FramesOf(c)' = IF full
                                      THEN Append(FramesOf(c), BufTake(buffered, TARGET_CHUNK_SIZE))
                                      ELSE FramesOf(c)
                 /\ BufConcat(collectors'[c].audioBuffer) =
                       IF full THEN BufDrop(buffered, TARGET_CHUNK_SIZE) ELSE buffered]_vars

\* C27 witness: one packet of more than two frames' worth of bytes arrived on
\* an OPEN socket: one frame went out and more than a frame stays buffered.
C27_Witness ==
    \E c \in DOMAIN collectors :
        /\ collectors[c].chunkCount = 1
        /\ sockets[collectors[c].streamingWs].readyState = "OPEN"
        /\ ~collectors[c].stopRequested
        /\ Len(FramesOf(c)) = 1
        /\ BufLen(FramesOf(c)[1]) = TARGET_CHUNK_SIZE
        /\ TotalBuffered(collectors[c].audioBuffer) >= TARGET_CHUNK_SIZE

(***************************************************************************)
(* C28  no frame on a socket that is not OPEN                              *)
(***************************************************************************)
\* C28: whenever the audio frames sent on a transcription socket change, by a
\* push or by the flush, the socket is OPEN in the state the step starts from;
\* and no push or flush raises.
C28_FramesOnlyWhenOpen ==
    /\ []~raised
    /\ [][\A c \in DOMAIN collectors :
            FramesOf(c)' # FramesOf(c) =>
                sockets[collectors[c].streamingWs].readyState = "OPEN"]_vars

\* C28 witness: the transcription socket of the meeting never opened; a
\* frame was cut by a push and the remainder, long enough to be sent, was
\* flushed at the stop: both were dropped and nothing was sent.
C28_Witness ==
    \E c \in DOMAIN collectors :
        /\ Cleaned(c)
        /\ sockets[collectors[c].streamingWs].sent = <<>>
        /\ Len(dropped[c]) >= 2
        /\ BufLen(dropped[c][1]) = TARGET_CHUNK_SIZE
        /\ BufLen(Last(dropped[c])) \in minChunkSize..(TARGET_CHUNK_SIZE - 1)

(***************************************************************************)
(* C29  pruning cuts at a plain user entry                                 *)
(***************************************************************************)
\* The history as it stands after the push of a final turn, before pruning.
PushedHistory == Append(conversationHistory, UserText(Last(tasks').transcript))
TurnPushed == Len(tasks') = Len(tasks) + 1
NoSafeBoundary(history) ==
    \A k \in DOMAIN history : k - 1 <= Len(history) - PruneKeep => ~IsPlainUser(history[k])

\* C29: on every step that pushes a final turn, the history kept is a suffix of
\* the pushed one; when entries were removed it begins with a plain user entry,
\* holds at least the PruneKeep newest entries, and pairs every tool-result entry
\* with its tool-call entry if the pushed history did; when the pushed history
\* has no plain user entry at or before index length - PruneKeep, or is not
\* longer than PruneThreshold, nothing is removed.
C29_PruneAtSafeBoundary ==
    [][TurnPushed =>
          LET removed == Len(PushedHistory) - Len(conversationHistory')
          IN /\ removed >= 0
             /\ conversationHistory' = SliceFrom(PushedHistory, removed)
             /\ removed > 0 =>
                   /\ IsPlainUser(conversationHistory'[1])
                   /\ Len(conversationHistory') >= PruneKeep
                   /\ WellPaired(PushedHistory) => WellPaired(conversationHistory')
             /\ NoSafeBoundary(PushedHistory) => removed = 0
             /\ Len(PushedHistory) <= PruneThreshold => removed = 0]_vars

\* C29 witness: with no second start signal, a turn was just pushed and the
\* history no longer begins with the first turn: entries were removed, and the
\* kept history holds tool-result entries.
C29_Witness ==
    /\ starts = 1
    /\ Len(conversationHistory) >= PruneKeep
    /\ Last(conversationHistory) = UserText(Last(tasks).transcript)
    /\ Last(tasks).pc = "await" /\ Last(tasks).rounds = 0
    /\ conversationHistory[1] # UserText(tasks[1].transcript)
    /\ \E k \in DOMAIN conversationHistory :
          conversationHistory[k].role = "user" /\ conversationHistory[k].isArray

\* The case of C29 where nothing is removed: a turn was just pushed onto a
\* history longer than PruneThreshold whose head holds no plain user entry.
C29_NothingRemoved ==
    /\ Len(conversationHistory) > PruneThreshold
    /\ Last(conversationHistory) = UserText(Last(tasks).transcript)
    /\ Last(tasks).pc = "await" /\ Last(tasks).rounds = 0
    /\ NoSafeBoundary(conversationHistory)

(***************************************************************************)
(* C30  the length of the history                                          *)
(***************************************************************************)
\* The length the history can reach when the turns are processed one after the
\* other with at most R rounds each: a push that does not prune leaves at most
\* PruneThreshold entries, a push that prunes cuts at the newest plain user entry
\* at or before index length - PruneKeep, which is at most 2R + 1 entries
\* further back; the turn then adds at most 2R + 1 entries.
LengthBound(R) ==
    IF PruneThreshold + 2 * R + 1 >= PruneKeep + 4 * R + 2
    THEN PruneThreshold + 2 * R + 1
    ELSE PruneKeep + 4 * R + 2

\* C30: in every reachable state where no turn has used more than RoundsBound
\* tool-call rounds, conversationHistory holds at most LengthBound(RoundsBound)
\* entries.
C30_Original ==
    (\A t \in DOMAIN tasks : tasks[t].rounds <= RoundsBound)
        => Len(conversationHistory) <= LengthBound(RoundsBound)

(***************************************************************************)
(* C31  the state right after a start signal                               *)
(***************************************************************************)
\* C31: every step that handles a start signal ends with the five FAINT fields
\* at the sentinel and the five lists empty, an empty conversationHistory, an
\* empty speaker map and speaker set, no current speaker, an empty transcript
\* buffer, and the started meeting registered with a collector object that did
\* not exist before, whose buffers are empty and whose stopRequested is false.
C31_StartResets ==
    [][starts' = starts + 1 =>
          /\ \A f \in FaintFields : financialData'.faint[f] = NotIdentified
          /\ DOMAIN financialData'.faint = FaintFields
          /\ \A l \in {"summary", "clientInfo", "advisorReminders", "concerns",
                       "strategicQuestions"} : financialData'[l] = <<>>
          /\ conversationHistory' = <<>>
          /\ DOMAIN speakerMapping' = {}
          /\ detectedSpeakers' = {}
          /\ currentSpeakerId' = NoSpeaker
          /\ liveTranscripts' = <<>>
          /\ \E m \in Meetings :
                /\ conversationId' = Sanitize(m)
                /\ m \in DOMAIN audioCollectors'
                /\ audioCollectors'[m] \notin DOMAIN collectors
                /\ LET collector == collectors'[audioCollectors'[m]]
                   IN /\ collector.audioBuffer = <<>>
                      /\ collector.audioChunks = <<>>
                      /\ collector.totalBytes = 0
                      /\ ~collector.stopRequested]_vars

\* C31 witness: a second start signal was just handled after a session in which
\* a speaker was seen, a turn was extracted into the record, audio stayed in
\* the buffer and the meeting was stopped.
C31_Witness ==
    /\ starts = 2
    /\ financialData = EmptyFinancialData /\ conversationHistory = <<>>
    /\ DOMAIN speakerMapping = {} /\ currentSpeakerId = NoSpeaker
    /\ \E t \in DOMAIN tasks : tasks[t].rounds >= 1
    /\ collectors[1].stopRequested /\ collectors[1].totalBytes > 0
    /\ ~collectors[2].stopRequested /\ collectors[2].audioBuffer = <<>>

(***************************************************************************)
(* C32  the order of the teardown                                          *)
(***************************************************************************)
\* The stop signal of meeting m is handled while m is active, with collector c.
StopsActive(m, c) ==
    /\ m \in DOMAIN audioCollectors
    /\ audioCollectors[m] = c
    /\ WebhookStopped(m)

ConnectionsOf(m) ==
    IF m \in DOMAIN activeConnections
    THEN {activeConnections[m][k] : k \in DOMAIN activeConnections[m]}
    ELSE {}

Closing(sock) == sock.readyState \in {"CLOSING", "CLOSED"}

\* C32 (as stated): when the handler of the stop signal of an active meeting
\* returns, stop is requested, the transcription socket has been terminated or
\* closed, the audio-source connections are closed and the meeting is in
\* neither registry.
C32_Original ==
    [][\A m \in Meetings, c \in DOMAIN collectors :
          StopsActive(m, c) =>
              LET ws == collectors[c].streamingWs
              IN /\ collectors'[c].stopRequested
                 /\ \/ TerminatesOn(sockets', ws) >= 1
                    \/ Closing(sockets'[ws])
                 /\ \A i \in ConnectionsOf(m) : Closing(sockets'[i])
                 /\ m \notin DOMAIN audioCollectors'
                 /\ m \notin DOMAIN activeConnections']_vars

\* What the handler of the stop signal sends on the transcription socket: the
\* remainder if the flush sends it, then Terminate.
StopSends(c) ==
    LET collector == collectors[c]
        remainder == BufConcat(collector.audioBuffer)
    IN (IF collector.audioBuffer # <<>> /\ BufLen(remainder) >= minChunkSize
        THEN <<AudioFrame(remainder)>> ELSE <<>>) \o <<TerminateMessage>>

\* C32 (amended): the handler of the stop signal of an active meeting requests
\* stop, then, only if the transcription socket is OPEN, sends the flushed
\* remainder followed by Terminate on it, then closes the audio-source
\* connections and removes the meeting from both registries; it does not close
\* the transcription socket, which is left to the timer it schedules. While the
\* meeting is in no registry an audio packet for it changes nothing.
C32_TeardownOrder ==
    /\ [][\A m \in Meetings, c \in DOMAIN collectors :
            StopsActive(m, c) =>
                LET ws == collectors[c].streamingWs
                IN /\ collectors'[c].stopRequested
                   /\ sockets'[ws].sent =
                         IF sockets[ws].readyState = "OPEN"
                         THEN sockets[ws].sent \o StopSends(c)
                         ELSE sockets[ws].sent
                   /\ sockets'[ws].readyState = sockets[ws].readyState
                   /\ sockets'[ws].closeCalls = sockets[ws].closeCalls
                   /\ timers' = Append(timers, c)
                   /\ \A i \in ConnectionsOf(m) : Closing(sockets'[i])
                   /\ m \notin DOMAIN audioCollectors'
                   /\ m \notin DOMAIN activeConnections']_vars
    /\ [](\A i \in DOMAIN sockets, len \in ChunkSizes :
            sockets[i].meeting \notin DOMAIN audioCollectors =>
                ~ENABLED (MediaAudioPacket(i, 7, len) /\ vars' # vars))

\* C32 witness: the stop signal was just handled with the transcription socket
\* OPEN and a remainder in the buffer: the remainder and Terminate are the last
\* two messages sent, the socket is still OPEN with its close timer pending, the
\* media socket is closing and still delivers an audio packet.
C32_Witness ==
    /\ MeetingA \notin DOMAIN audioCollectors
    /\ MeetingA \notin DOMAIN activeConnections
    /\ timers = <<1>>
    /\ LET sock == sockets[collectors[1].streamingWs]
           n == Len(sock.sent)
       IN /\ sock.readyState = "OPEN" /\ sock.closeCalls = 0
          /\ n >= 2
          /\ IsTerminate(sock.sent[n]) /\ IsAudio(sock.sent[n - 1])
    /\ \E i \in DOMAIN sockets :
          /\ sockets[i].kind = "media" /\ sockets[i].readyState = "CLOSING"
          /\ ENABLED MediaAudioPacket(i, 7, 700)

ManuallyAssigned == {assignLog[k].speakerId : k \in DOMAIN assignLog}

\* C34 (as stated): a step that handles an audio packet leaves the role of every
\* manually assigned speaker as it is.
C34_Original ==
    [][packetLog' # packetLog /\ starts' = starts =>
          \A speakerId \in ManuallyAssigned :
              /\ speakerId \in DOMAIN speakerMapping'
              /\ speakerMapping'[speakerId] = speakerMapping[speakerId]]_vars

(***************************************************************************)
(* C35  the speaker recorded on a finalized turn                           *)
(***************************************************************************)
\* The packets whose bytes, or part of them, were sent to the transcription
\* service by collector c, and the speakers of those packets.
SentPackets(c) ==
    {k \in DOMAIN collectors[c].audioChunks :
        \E f \in DOMAIN FramesOf(c) : \E p \in DOMAIN FramesOf(c)[f] :
            LET piece == FramesOf(c)[f][p]
                chunk == collectors[c].audioChunks[k][1]
            IN chunk.lo < piece.hi /\ piece.lo < chunk.hi}

SentSpeakers(c) == {packetLog[k] : k \in SentPackets(c)}

\* C35 (as stated): in every reachable state the speaker id recorded on each
\* finalized turn is that of a participant whose audio the transcription
\* service has received.
C35_Original ==
    \A k \in DOMAIN liveTranscripts :
        liveTranscripts[k].speakerId \in UNION {SentSpeakers(c) : c \in DOMAIN collectors}

(***************************************************************************)
(* C36  the bytes left in the buffer by a push                             *)
(***************************************************************************)
\* C36 (as stated): in every reachable state, that is after every call of
\* sendToAssemblyAI, each collector's buffer holds fewer than
\* TARGET_CHUNK_SIZE bytes.
C36_Original ==
    \A c \in DOMAIN collectors :
        TotalBuffered(collectors[c].audioBuffer) < TARGET_CHUNK_SIZE

(***************************************************************************)
(* C37  no socket of a stopped meeting stays open                          *)
(***************************************************************************)
\* C37 (as stated): in every reachable state where a meeting is in no registry
\* and no close timer is pending, so that nothing of the teardown is left to
\* run, every socket opened for the meeting is closing or closed.
C37_Original ==
    \A m \in Meetings :
        /\ m \notin DOMAIN audioCollectors
        /\ m \notin DOMAIN activeConnections
        /\ timers = <<>>
        => \A i \in DOMAIN sockets : sockets[i].meeting = m => Closing(sockets[i])

(***************************************************************************)
(* C38  the keys of the qualification record                               *)
(***************************************************************************)
\* C38 (as stated): in every reachable state financialData.faint has exactly
\* the five keys funds, authority, interest, need and timing.
C38_Original == DOMAIN financialData.faint = FaintFields

(***************************************************************************)
(* C39  SDK variant: a start signal re-enables the forwarding of audio     *)
(***************************************************************************)
\* C39 (as stated): every audio callback that comes after a start signal with
\* no stop signal and no streaming error since, finds the streaming socket OPEN
\* and brings the buffer to one frame (3200 bytes) or more, sends one frame on
\* that socket.
C39_Original ==
    [][/\ sdk'.pushes = sdk.pushes + 1
       /\ sdk.forwarding
       /\ sdk.streamingWs # 0
       /\ sdk.sockets[sdk.streamingWs].readyState = "OPEN"
       /\ TotalBuffered(sdk.audioBuffer) + (sdk'.totalBytes - sdk.totalBytes)
             >= SdkTARGET_CHUNK_SIZE
       => Len(sdk'.sockets[sdk.streamingWs].sent)
             = Len(sdk.sockets[sdk.streamingWs].sent) + 1]_vars

(***************************************************************************)
(* C40  SDK variant: the delayed close and a new streaming socket          *)
(***************************************************************************)
\* C40 (as stated): when a close timer fires while streamingWs is a socket
\* created after the timer was scheduled, the timer leaves that socket and the
\* reference to it as they are.
C40_Original ==
    [][/\ Len(sdk'.timers) < Len(sdk.timers)
       /\ sdk.streamingWs # 0
       /\ sdk.streamingWs # Head(sdk.timers)
       => /\ sdk'.streamingWs = sdk.streamingWs
          /\ sdk'.sockets[sdk.streamingWs] = sdk.sockets[sdk.streamingWs]]_vars

====
